---- MODULE Spec2Model ----
(***************************************************************************)
(* Domain-level performance analysis of the function-calling benchmark     *)
(* (domain_performance_analyzer.py) and the export of its result           *)
(* (results_to_excel.py).                                                  *)
(*                                                                         *)
(* Text that the code concatenates, compares or sorts (dataset names,      *)
(* model directory names, domain names) is a sequence of code points.      *)
(* Text the code only tests for equality (question ids, error types) is a  *)
(* string.  A JSON object is a record whose DOMAIN is the set of keys that *)
(* are present.  A float that is the quotient of two small integers is the *)
(* fraction in lowest terms: two such quotients are the same float exactly *)
(* when they are the same fraction.                                        *)
(*                                                                         *)
(* Every dataset file name carries the fixed prefix of the glob pattern    *)
(* 'BFCL_v3_multi_turn_*.json'; a dataset name below is the part the '*'   *)
(* matches.  '.json' occurs in a file name only as its suffix.             *)
(***************************************************************************)
EXTENDS Integers, Sequences, FiniteSets, TLC

VARIABLES
  data_dir,     \* dataset name -> the file BFCL_v3_multi_turn_<name>.json
  score_dir,    \* <<model dir, dataset name>> -> <model dir>/<name>_score.json
  model_name,   \* the --model argument, <<>> when not given
  pc,           \* "start", "returned", "raised", "saved", "exported"
  results,      \* what analyze_domain_performance returned
  output_json,  \* the content of the --output file of the analyzer
  records,      \* the list extract_model_dataset_results returned
  sheet,        \* the Domain_Performance sheet
  loader_dir,   \* BFCLDataLoader: the files under self.data_dir
  loader_name,  \* the dataset_name argument of the loader's methods
  loaded,       \* the outcome of the load_* call made on the loader
  report,       \* the outcome of the validate_dataset call made on the loader
  filter_args,  \* apply_filters: data, search_term, error_type, range_filter
  filtered,     \* what apply_filters returned and gave to st.error
  received,     \* the api_response the completion API returned
  parsed,       \* what _parse_query_response_FC returned for it
  chat,         \* inference_data of the handler: the chat history "message"
  added,        \* the last operation on the chat history and what it was given
  exporter_args,  \* results_to_excel.py: --input opens, --output, --pivot
  exporter_calls, \* the calls main of results_to_excel.py made
  exporter_pc,    \* "off", "start", "done"
  session_state,  \* st.session_state
  session_reruns, \* the reruns of the explorer script made in the session
  rendered        \* what the last render_category_details was given and showed

analyzerVars ==
  <<data_dir, score_dir, model_name, pc, results, output_json, records, sheet>>

loaderVars == <<loader_dir, loader_name, loaded, report>>

filterVars == <<filter_args, filtered>>

adapterVars == <<received, parsed, chat, added>>

exporterVars == <<exporter_args, exporter_calls, exporter_pc>>

sessionVars == <<session_state, session_reruns, rendered>>

\* what the analyzer and create_excel_from_results leave alone
otherVars == <<loaderVars, filterVars, adapterVars, exporterVars, sessionVars>>

\* what the loader leaves alone
notLoaderVars == <<analyzerVars, filterVars, adapterVars, exporterVars, sessionVars>>

\* what apply_filters leaves alone
notFilterVars == <<analyzerVars, loaderVars, adapterVars, exporterVars, sessionVars>>

\* what the completion adapter leaves alone
notAdapterVars == <<analyzerVars, loaderVars, filterVars, exporterVars, sessionVars>>

\* what main of results_to_excel.py leaves alone
notExporterVars == <<analyzerVars, loaderVars, filterVars, adapterVars, sessionVars>>

\* what initialize_session_state leaves alone
notSessionVars == <<analyzerVars, loaderVars, filterVars, adapterVars, exporterVars>>

vars == <<analyzerVars, otherVars>>

-----------------------------------------------------------------------------
(* Bounds of the enumerated inputs *)

MaxItems == 2
MaxFailures == 2
MaxCount == 3

-----------------------------------------------------------------------------
(* Names *)

DsBase == <<97>>              \* "a"
DsLong == <<97, 95, 98>>      \* "a_b"
MdShort == <<98>>             \* "b"
MdLong == <<98, 95, 98>>      \* "b_b"
DomA == <<65>>                \* "A"
DomB == <<66>>                \* "B"

DatasetNames == {DsBase, DsLong}
ModelDirs == {MdShort, MdLong}
Domains == {DomA, DomB}

-----------------------------------------------------------------------------
(* Generic helpers *)

Get(obj, key, default) == IF key \in DOMAIN obj THEN obj[key] ELSE default

Put(f, k, v) == [x \in (DOMAIN f) \cup {k} |-> IF x = k THEN v ELSE f[x]]

EmptyMap == [x \in {} |-> 0]

Range(s) == {s[i] : i \in 1..Len(s)}

SeqsUpTo(S, n) == UNION {[1..k -> S] : k \in 0..n}

Perms(S) == {s \in [1..Cardinality(S) -> S] : Range(s) = S}

RECURSIVE SumOver(_, _)
SumOver(f, S) ==
  IF S = {} THEN 0
  ELSE LET x == CHOOSE y \in S : TRUE IN f[x] + SumOver(f, S \ {x})

Abs(n) == IF n < 0 THEN -n ELSE n

RECURSIVE Gcd(_, _)
Gcd(a, b) == IF b = 0 THEN a ELSE Gcd(b, a % b)

\* The float n / d (d > 0) as the fraction in lowest terms.
Quotient(n, d) ==
  LET g == Gcd(Abs(n), d) IN [num |-> n \div g, den |-> d \div g]

Zero == [num |-> 0, den |-> 1]

\* s contains sub as a contiguous run
Contains(s, sub) ==
  \E i \in 0..(Len(s) - Len(sub)) : SubSeq(s, i + 1, i + Len(sub)) = sub

-----------------------------------------------------------------------------
(* Files *)

Absent == [state |-> "absent", lines |-> <<>>]
Malformed == [state |-> "malformed", lines |-> <<>>]
File(lines) == [state |-> "ok", lines |-> lines]

\* json.loads raises on a line that is not JSON; blank lines are skipped, so
\* lines holds the non-blank lines only.
Loads(file) == file.state = "ok"

load_json_file(file) == file.lines

get_data_domains(data_item) == Range(Get(data_item, "involved_classes", <<>>))

\* glob.glob(os.path.join(data_dir, 'BFCL_v3_multi_turn_*.json'))
data_files(dd) == {d \in DOMAIN dd : dd[d].state # "absent"}

\* a filter that asks for the directory of that very name
score_files_exact(sd, filter, dataset_name) ==
  {m \in ModelDirs :
     /\ sd[<<m, dataset_name>>].state # "absent"
     /\ (filter = <<>> \/ m = filter)}

\* glob.glob(os.path.join(score_dir, "*<model_name>*" or "*", score_pattern)),
\* as the set of model directories of the files found
score_files(sd, filter, dataset_name) ==
  {m \in ModelDirs :
     /\ sd[<<m, dataset_name>>].state # "absent"
     /\ (filter = <<>> \/ Contains(m, filter))}

-----------------------------------------------------------------------------
(* analyze_domain_performance *)

DefaultStat ==
  [total_instances |-> 0, failed_instances |-> 0,
   success_rate |-> Zero, error_types |-> EmptyMap]

\* first pass: len(data_items) of every data file that loads
dataset_totals(dd) ==
  [d \in {x \in data_files(dd) : Loads(dd[x])} |-> Len(load_json_file(dd[d]))]

all_models(dd, sd, filter) ==
  UNION {score_files(sd, filter, d) : d \in data_files(dd)}

\* counts every occurrence of a name in the involved_classes list
dataset_domain_counts_list(data_items) ==
  [domain \in UNION {get_data_domains(data_items[i]) : i \in 1..Len(data_items)} |->
     Cardinality({p \in (1..Len(data_items)) \X (1..2) :
                    /\ p[2] <= Len(Get(data_items[p[1]], "involved_classes", <<>>))
                    /\ data_items[p[1]].involved_classes[p[2]] = domain})]

dataset_domain_counts(data_items) ==
  [domain \in UNION {get_data_domains(data_items[i]) : i \in 1..Len(data_items)} |->
     Cardinality({i \in 1..Len(data_items) : domain \in get_data_domains(data_items[i])})]

\* "Initialize counts for each stratification": the nested defaultdict gets an
\* entry only where the innermost assignment runs.
InitializeCounts(dd, models) ==
  LET counted == {d \in data_files(dd) :
                    Loads(dd[d]) /\ DOMAIN dataset_domain_counts(load_json_file(dd[d])) # {}}
  IN [m \in (IF counted = {} THEN {} ELSE models) |->
       [d \in counted |->
          LET counts == dataset_domain_counts(load_json_file(dd[d]))
          IN [domain \in DOMAIN counts |->
                [DefaultStat EXCEPT !.total_instances = counts[domain]]]]]

\* the first item with an id wins
data_by_id_first(data_items) ==
  [id \in {data_items[i].id : i \in 1..Len(data_items)} |->
     data_items[CHOOSE i \in 1..Len(data_items) :
                  /\ data_items[i].id = id
                  /\ \A j \in 1..(i - 1) : data_items[j].id # id]]

\* {item['id']: item for item in data_items}: the last item with an id wins
data_by_id(data_items) ==
  [id \in {data_items[i].id : i \in 1..Len(data_items)} |->
     data_items[CHOOSE i \in 1..Len(data_items) :
                  /\ data_items[i].id = id
                  /\ \A j \in (i + 1)..Len(data_items) : data_items[j].id # id]]

dataset_key(dataset_name, model_dir) == dataset_name \o <<95>> \o model_dir

\* takes the number of correct answers for the number of failures
dataset_failed_correct(summary) == Get(summary, "correct_count", 0)

dataset_failed(summary) ==
  Get(summary, "total_count", 0) - Get(summary, "correct_count", 0)

failed_entries(score_data) == IF Len(score_data) > 1 THEN Tail(score_data) ELSE <<>>

\* counts the failure into the model's total_instances as well
CountDomainFailure_total(stats, model_dir, dataset_name, domain, error_type) ==
  LET of_model == Get(stats, model_dir, EmptyMap)
      of_dataset == Get(of_model, dataset_name, EmptyMap)
      stat == Get(of_dataset, domain, DefaultStat)
      counted == [stat EXCEPT
                    !.total_instances = @ + 1,
                    !.failed_instances = @ + 1,
                    !.error_types = Put(@, error_type, Get(@, error_type, 0) + 1)]
  IN Put(stats, model_dir, Put(of_model, dataset_name, Put(of_dataset, domain, counted)))

\* leaves a failure without an error type out of the histogram
CountDomainFailure_typed(stats, model_dir, dataset_name, domain, error_type) ==
  LET of_model == Get(stats, model_dir, EmptyMap)
      of_dataset == Get(of_model, dataset_name, EmptyMap)
      stat == Get(of_dataset, domain, DefaultStat)
      counted == [stat EXCEPT
                    !.failed_instances = @ + 1,
                    !.error_types = IF error_type = "unknown" THEN @
                                    ELSE Put(@, error_type, Get(@, error_type, 0) + 1)]
  IN Put(stats, model_dir, Put(of_model, dataset_name, Put(of_dataset, domain, counted)))

\* results[...][model_dir][dataset_name][domain]: failed_instances += 1 and
\* error_types[error_type] += 1, with the defaultdicts' insert on access
CountDomainFailure(stats, model_dir, dataset_name, domain, error_type) ==
  LET of_model == Get(stats, model_dir, EmptyMap)
      of_dataset == Get(of_model, dataset_name, EmptyMap)
      stat == Get(of_dataset, domain, DefaultStat)
      counted == [stat EXCEPT
                    !.failed_instances = @ + 1,
                    !.error_types = Put(@, error_type, Get(@, error_type, 0) + 1)]
  IN Put(stats, model_dir, Put(of_model, dataset_name, Put(of_dataset, domain, counted)))

\* counts the failure against one domain of the question only
CountDomains_one(stats, model_dir, dataset_name, domains, error_type) ==
  IF domains = {} THEN stats
  ELSE CountDomainFailure(stats, model_dir, dataset_name,
                          CHOOSE x \in domains : TRUE, error_type)

RECURSIVE CountDomains(_, _, _, _, _)
CountDomains(stats, model_dir, dataset_name, domains, error_type) ==
  IF domains = {} THEN stats
  ELSE LET domain == CHOOSE x \in domains : TRUE
       IN CountDomains(
            CountDomainFailure(stats, model_dir, dataset_name, domain, error_type),
            model_dir, dataset_name, domains \ {domain}, error_type)

\* counts an entry that names no question against a domain "u"
CountFailedEntry_unknown(stats, model_dir, dataset_name, by_id, failed_entry) ==
  LET item_id == Get(failed_entry, "id", "")
      error_info == Get(failed_entry, "error", EmptyMap)
      error_type == Get(error_info, "error_type", "unknown")
  IN IF item_id = "" \/ item_id \notin DOMAIN by_id
     THEN CountDomainFailure(stats, model_dir, dataset_name, <<117>>, error_type)
     ELSE CountDomains(stats, model_dir, dataset_name,
                       get_data_domains(by_id[item_id]), error_type)

\* one iteration of "for failed_entry in failed_entries"; a missing id (None)
\* and an empty id are both falsy
CountFailedEntry(stats, model_dir, dataset_name, by_id, failed_entry) ==
  LET item_id == Get(failed_entry, "id", "")
      error_info == Get(failed_entry, "error", EmptyMap)
      error_type == Get(error_info, "error_type", "unknown")
  IN IF item_id = "" \/ item_id \notin DOMAIN by_id
     THEN stats
     ELSE CountDomains(stats, model_dir, dataset_name,
                       get_data_domains(by_id[item_id]), error_type)

RECURSIVE CountFailedEntries(_, _, _, _, _)
CountFailedEntries(stats, model_dir, dataset_name, by_id, entries) ==
  IF entries = <<>> THEN stats
  ELSE CountFailedEntries(
         CountFailedEntry(stats, model_dir, dataset_name, by_id, Head(entries)),
         model_dir, dataset_name, by_id, Tail(entries))

\* item['id'] raises KeyError on a question record without the key
HasIds(data_items) == \A i \in 1..Len(data_items) : "id" \in DOMAIN data_items[i]

\* "Process each score file": acc is [domain_stats, dataset_stats, raised]
ProcessScoreFile(acc, dd, sd, dataset_name, model_dir) ==
  LET data_items == load_json_file(dd[dataset_name])
      score_file == sd[<<model_dir, dataset_name>>]
      score_data == load_json_file(score_file)
      key == dataset_key(dataset_name, model_dir)
      created == IF key \in DOMAIN acc.dataset_stats
                 THEN acc.dataset_stats
                 ELSE Put(acc.dataset_stats, key,
                          [total_instances |-> Get(dataset_totals(dd), dataset_name, 0),
                           failed_instances |-> 0,
                           success_rate |-> Zero])
      summary == IF score_data # <<>> THEN score_data[1] ELSE EmptyMap
  IN IF acc.raised \/ ~Loads(score_file) THEN acc
     ELSE IF ~HasIds(data_items) THEN [acc EXCEPT !.raised = TRUE]
     ELSE [acc EXCEPT
             !.dataset_stats =
                Put(created, key,
                    [created[key] EXCEPT !.failed_instances = dataset_failed(summary)]),
             !.domain_stats =
                CountFailedEntries(@, model_dir, dataset_name,
                                   data_by_id(data_items), failed_entries(score_data))]

RECURSIVE ProcessScoreFiles(_, _, _, _, _)
ProcessScoreFiles(acc, dd, sd, dataset_name, models) ==
  IF models = {} THEN acc
  ELSE LET model_dir == CHOOSE m \in models : TRUE
       IN ProcessScoreFiles(ProcessScoreFile(acc, dd, sd, dataset_name, model_dir),
                            dd, sd, dataset_name, models \ {model_dir})

\* "Second pass: count failures from score files", data files in glob order
RECURSIVE SecondPass(_, _, _, _, _)
SecondPass(acc, dd, sd, filter, order) ==
  IF order = <<>> THEN acc
  ELSE LET dataset_name == Head(order)
           next == IF Loads(dd[dataset_name])
                   THEN ProcessScoreFiles(acc, dd, sd, dataset_name,
                                          score_files(sd, filter, dataset_name))
                   ELSE acc
       IN SecondPass(next, dd, sd, filter, Tail(order))

\* reports the failure rate
WithSuccessRate_failed(stats) ==
  IF stats.total_instances > 0
  THEN [stats EXCEPT !.success_rate = Quotient(stats.failed_instances, stats.total_instances)]
  ELSE stats

\* "Calculate success rates"
WithSuccessRate(stats) ==
  IF stats.total_instances > 0
  THEN [stats EXCEPT !.success_rate =
          Quotient(stats.total_instances - stats.failed_instances, stats.total_instances)]
  ELSE stats

\* sums the per-domain breakdowns
OverallStats_domains(domain_stats, dataset_stats) ==
  LET entries == UNION {UNION {{<<m, d, domain>> : domain \in DOMAIN domain_stats[m][d]} :
                                 d \in DOMAIN domain_stats[m]} : m \in DOMAIN domain_stats}
      total == SumOver([e \in entries |-> domain_stats[e[1]][e[2]][e[3]].total_instances], entries)
      failed == SumOver([e \in entries |-> domain_stats[e[1]][e[2]][e[3]].failed_instances], entries)
  IN [total_instances |-> total,
      total_failed |-> failed,
      overall_success_rate |-> IF total > 0 THEN Quotient(total - failed, total) ELSE Zero]

\* "Update overall stats (use dataset stats to avoid double counting)"
OverallStats(domain_stats, dataset_stats) ==
  LET total == SumOver([k \in DOMAIN dataset_stats |-> dataset_stats[k].total_instances],
                       DOMAIN dataset_stats)
      failed == SumOver([k \in DOMAIN dataset_stats |-> dataset_stats[k].failed_instances],
                        DOMAIN dataset_stats)
  IN [total_instances |-> total,
      total_failed |-> failed,
      overall_success_rate |-> IF total > 0 THEN Quotient(total - failed, total) ELSE Zero]

\* The whole function for one order of the data-file glob: [raised, results]
analyze_domain_performance(dd, sd, filter, order) ==
  LET counted == SecondPass(
                   [domain_stats |-> InitializeCounts(dd, all_models(dd, sd, filter)),
                    dataset_stats |-> EmptyMap,
                    raised |-> FALSE],
                   dd, sd, filter, order)
      domain_stats ==
        [m \in DOMAIN counted.domain_stats |->
          [d \in DOMAIN counted.domain_stats[m] |->
            [domain \in DOMAIN counted.domain_stats[m][d] |->
               WithSuccessRate(counted.domain_stats[m][d][domain])]]]
      dataset_stats ==
        [k \in DOMAIN counted.dataset_stats |-> WithSuccessRate(counted.dataset_stats[k])]
  IN [raised |-> counted.raised,
      results |-> [domain_stats_by_model_dataset |-> domain_stats,
                   dataset_stats |-> dataset_stats,
                   overall_stats |-> OverallStats(domain_stats, dataset_stats)]]

NoResults ==
  [domain_stats_by_model_dataset |-> EmptyMap,
   dataset_stats |-> EmptyMap,
   overall_stats |-> [total_instances |-> 0, total_failed |-> 0,
                      overall_success_rate |-> Zero]]

-----------------------------------------------------------------------------
(* The analyzer's --output file and results_to_excel.py *)

\* json.dump(results, f, indent=2, default=str) read back by json.load: every
\* mapping (defaultdict or dict) becomes an object with the same string keys,
\* an int stays the int, a float is written by repr and read back as the same
\* float.
json_dump(res) ==
  [domain_stats_by_model_dataset |->
     [m \in DOMAIN res.domain_stats_by_model_dataset |->
       [d \in DOMAIN res.domain_stats_by_model_dataset[m] |->
         [domain \in DOMAIN res.domain_stats_by_model_dataset[m][d] |->
            LET stat == res.domain_stats_by_model_dataset[m][d][domain]
            IN [total_instances |-> stat.total_instances,
                failed_instances |-> stat.failed_instances,
                success_rate |-> stat.success_rate,
                error_types |-> [e \in DOMAIN stat.error_types |-> stat.error_types[e]]]]]],
   dataset_stats |->
     [k \in DOMAIN res.dataset_stats |->
        [total_instances |-> res.dataset_stats[k].total_instances,
         failed_instances |-> res.dataset_stats[k].failed_instances,
         success_rate |-> res.dataset_stats[k].success_rate]],
   overall_stats |->
     [total_instances |-> res.overall_stats.total_instances,
      total_failed |-> res.overall_stats.total_failed,
      overall_success_rate |-> res.overall_stats.overall_success_rate]]

\* keeps the domains that have failures
IncludeDomain_failed(domain_stats) == Get(domain_stats, "failed_instances", 0) > 0

\* "Only include domains that have instances (avoid empty entries)"
IncludeDomain(domain_stats) == Get(domain_stats, "total_instances", 0) > 0

\* the innermost loop of extract_model_dataset_results; keys is the order in
\* which the mapping yields its domains
RECURSIVE ExtractDomains(_, _, _, _)
ExtractDomains(model, dataset, dataset_domains, keys) ==
  IF keys = <<>> THEN <<>>
  ELSE LET domain_name == Head(keys)
           rest == ExtractDomains(model, dataset, dataset_domains, Tail(keys))
       IN IF domain_name \in DOMAIN dataset_domains
             /\ IncludeDomain(dataset_domains[domain_name])
          THEN << [Domain |-> domain_name, Model |-> model, Dataset |-> dataset,
                   Success_Rate |-> Get(dataset_domains[domain_name], "success_rate", Zero)] >>
               \o rest
          ELSE rest

RECURSIVE ExtractDatasets(_, _, _, _)
ExtractDatasets(model, model_data, dataset_keys, domain_keys) ==
  IF dataset_keys = <<>> THEN <<>>
  ELSE (IF Head(dataset_keys) \in DOMAIN model_data
        THEN ExtractDomains(model, Head(dataset_keys),
                            model_data[Head(dataset_keys)], domain_keys)
        ELSE <<>>)
       \o ExtractDatasets(model, model_data, Tail(dataset_keys), domain_keys)

RECURSIVE ExtractModels(_, _, _, _)
ExtractModels(model_dataset_stats, model_keys, dataset_keys, domain_keys) ==
  IF model_keys = <<>> THEN <<>>
  ELSE (IF Head(model_keys) \in DOMAIN model_dataset_stats
        THEN ExtractDatasets(Head(model_keys), model_dataset_stats[Head(model_keys)],
                             dataset_keys, domain_keys)
        ELSE <<>>)
       \o ExtractModels(model_dataset_stats, Tail(model_keys), dataset_keys, domain_keys)

\* The mappings yield their keys in insertion order, which follows the order
\* of the glob and of set iteration: any order of the keys.
extract_model_dataset_results(res, model_keys, dataset_keys, domain_keys) ==
  ExtractModels(Get(res, "domain_stats_by_model_dataset", EmptyMap),
                model_keys, dataset_keys, domain_keys)

\* Python's str comparison: by code point, a proper prefix first
RECURSIVE StrLess(_, _)
StrLess(s, t) ==
  IF t = <<>> THEN FALSE
  ELSE IF s = <<>> THEN TRUE
  ELSE IF Head(s) # Head(t) THEN Head(s) < Head(t)
  ELSE StrLess(Tail(s), Tail(t))

\* the order of df.sort_values(['Domain', 'Model', 'Dataset'])
RowLess_domain_first(r, q) ==
  \/ StrLess(r.Domain, q.Domain)
  \/ /\ r.Domain = q.Domain
     /\ \/ StrLess(r.Model, q.Model)
        \/ r.Model = q.Model /\ StrLess(r.Dataset, q.Dataset)

\* the order of df.sort_values(['Model', 'Dataset', 'Domain'])
RowLess(r, q) ==
  \/ StrLess(r.Model, q.Model)
  \/ /\ r.Model = q.Model
     /\ \/ StrLess(r.Dataset, q.Dataset)
        \/ r.Dataset = q.Dataset /\ StrLess(r.Domain, q.Domain)

RECURSIVE InsertRow(_, _)
InsertRow(row, sorted) ==
  IF sorted = <<>> THEN <<row>>
  ELSE IF RowLess(row, Head(sorted)) THEN <<row>> \o sorted
  ELSE <<Head(sorted)>> \o InsertRow(row, Tail(sorted))

RECURSIVE sort_values(_)
sort_values(rows) ==
  IF rows = <<>> THEN <<>>
  ELSE InsertRow(rows[Len(rows)], sort_values(SubSeq(rows, 1, Len(rows) - 1)))

\* df['Success_Rate'] * 100, the rounding of the float product left out
Percent(rate) == Quotient(rate.num * 100, rate.den)

\* the frame written to the sheet: final_df
final_df(recs) ==
  LET df == sort_values(recs)
  IN [i \in 1..Len(df) |->
        [Domain |-> df[i].Domain, Model |-> df[i].Model, Dataset |-> df[i].Dataset,
         Success_Rate_Percent |-> Percent(df[i].Success_Rate)]]

NoSheet == [written |-> FALSE, rows |-> <<>>]

-----------------------------------------------------------------------------
(* Inputs *)

ClassLists == {<<>>, <<DomA>>, <<DomB>>, <<DomA, DomB>>, <<DomA, DomA>>}

Questions == [id : {"q1", "q2"}, involved_classes : ClassLists]

ErrorInfos == {[error_type |-> "e1"]}

FailureRecords ==
  [id : {"q1", "q2"}, error : ErrorInfos] \cup [id : {"q1", "q2"}]
    \cup [error : ErrorInfos] \cup {EmptyMap}

SummaryRecords ==
  [total_count : 0..MaxCount, correct_count : 0..MaxCount]
    \cup [total_count : 0..MaxCount] \cup [correct_count : 0..MaxCount] \cup {EmptyMap}

QuestionFiles ==
  {Absent, Malformed} \cup {File(items) : items \in SeqsUpTo(Questions, MaxItems)}

ScoreFiles ==
  {Absent, Malformed, File(<<>>)}
    \cup {File(<<summary>> \o failures) :
            summary \in SummaryRecords, failures \in SeqsUpTo(FailureRecords, MaxFailures)}

Fail(id, error_type) == [id |-> id, error |-> [error_type |-> error_type]]

\* the dataset of the three questions tagged {A}, {A,B}, {B}
ScenarioData ==
  File(<< [id |-> "q1", involved_classes |-> <<DomA>>],
          [id |-> "q2", involved_classes |-> <<DomA, DomB>>],
          [id |-> "q3", involved_classes |-> <<DomB>>] >>)

ScenarioScore ==
  File(<< [total_count |-> 3, correct_count |-> 2, accuracy |-> Quotient(2, 3)],
          Fail("q2", "e1") >>)

DataMenu ==
  { Malformed,
    File(<<>>),
    File(<< [id |-> "q1", involved_classes |-> <<DomA>>] >>),
    File(<< [id |-> "q1", involved_classes |-> <<DomA, DomB>>],
            [id |-> "q2", involved_classes |-> <<DomB>>] >>),
    File(<< [id |-> "q1", involved_classes |-> <<DomA>>],
            [id |-> "q1", involved_classes |-> <<DomB>>] >>),
    File(<< [id |-> "q1"], [id |-> "q2", involved_classes |-> <<DomB, DomA>>] >>),
    ScenarioData }

ScoreMenu ==
  { Absent, Malformed, File(<<>>),
    File(<< [total_count |-> 2, correct_count |-> 1], Fail("q1", "e1") >>),
    File(<< [total_count |-> 2, correct_count |-> 0], Fail("q1", "e1"), Fail("q1", "e2") >>),
    File(<< [total_count |-> 2, correct_count |-> 0],
            [id |-> "q2", error |-> EmptyMap], Fail("q1", "e2") >>),
    File(<< [total_count |-> 1, correct_count |-> 0], [id |-> "", error |-> [error_type |-> "e1"]] >>),
    ScenarioScore }

MultiData ==
  { Absent, Malformed,
    File(<< [id |-> "q1", involved_classes |-> <<DomA>>] >>),
    File(<< [id |-> "q1", involved_classes |-> <<DomA, DomB>>],
            [id |-> "q2", involved_classes |-> <<DomB>>] >>),
    File(<< [involved_classes |-> <<DomA>>] >>) }

MultiScore ==
  { Absent, Malformed,
    File(<< [total_count |-> 2, correct_count |-> 1], Fail("q1", "e1") >>),
    File(<< [total_count |-> 1, correct_count |-> 1] >>) }

ModelFilters == {<<>>, <<98, 95>>}     \* no --model, --model b_

Only(d, file) == [x \in DatasetNames |-> IF x = d THEN file ELSE Absent]

OnlyScore(m, d, file) ==
  [x \in ModelDirs \X DatasetNames |-> IF x = <<m, d>> THEN file ELSE Absent]

-----------------------------------------------------------------------------
(* The state machine *)

Idle ==
  /\ pc = "start"
  /\ results = NoResults
  /\ output_json = NoResults
  /\ records = <<>>
  /\ sheet = NoSheet

\* one dataset and one model, every small dataset file
InitQuestions ==
  /\ \E file \in QuestionFiles : data_dir = Only(DsBase, file)
  /\ \E file \in ScoreMenu : score_dir = OnlyScore(MdShort, DsBase, file)
  /\ model_name = <<>>
  /\ Idle

\* one dataset and one model, every small score file
InitScores ==
  /\ \E file \in DataMenu : data_dir = Only(DsBase, file)
  /\ \E file \in ScoreFiles : score_dir = OnlyScore(MdShort, DsBase, file)
  /\ model_name = <<>>
  /\ Idle

\* two datasets and two models
InitCorpus ==
  /\ data_dir \in [DatasetNames -> MultiData]
  /\ score_dir \in [ModelDirs \X DatasetNames -> MultiScore]
  /\ model_name \in ModelFilters
  /\ Idle

InitAnalyzer == InitQuestions \/ InitScores \/ InitCorpus

\* analyze_domain_performance(args.data_dir, args.score_dir, args.model)
Analyze ==
  /\ pc = "start"
  /\ \E order \in Perms(data_files(data_dir)) :
       LET run == analyze_domain_performance(data_dir, score_dir, model_name, order)
       IN /\ pc' = IF run.raised THEN "raised" ELSE "returned"
          /\ results' = IF run.raised THEN results ELSE run.results
  /\ UNCHANGED <<data_dir, score_dir, model_name, output_json, records, sheet>>
  /\ UNCHANGED otherVars

\* main of the analyzer with --output: json.dump(results, ...)
SaveResults ==
  /\ pc = "returned"
  /\ output_json' = json_dump(results)
  /\ pc' = "saved"
  /\ UNCHANGED <<data_dir, score_dir, model_name, results, records, sheet>>
  /\ UNCHANGED otherVars

\* create_excel_from_results(json_file, output_excel)
CreateExcel ==
  /\ pc = "saved"
  /\ \E model_keys \in Perms(ModelDirs), dataset_keys \in Perms(DatasetNames),
        domain_keys \in Perms(Domains) :
       /\ records' = extract_model_dataset_results(output_json, model_keys,
                                                   dataset_keys, domain_keys)
       /\ sheet' = IF records' = <<>> THEN sheet
                   ELSE [written |-> TRUE, rows |-> final_df(records')]
  /\ pc' = "exported"
  /\ UNCHANGED <<data_dir, score_dir, model_name, results, output_json>>
  /\ UNCHANGED otherVars

-----------------------------------------------------------------------------
(* What the claims speak about *)

Finished == pc \in {"returned", "saved", "exported"}

Stats == results.domain_stats_by_model_dataset

\* the (model, dataset, domain) entries of domain_stats_by_model_dataset
Entries ==
  UNION {UNION {{<<m, d, domain>> : domain \in DOMAIN Stats[m][d]} : d \in DOMAIN Stats[m]} :
           m \in DOMAIN Stats}

Pairs == {<<e[1], e[2]>> : e \in Entries}

QuestionsOf(d) == data_dir[d].lines

ScoreOf(m, d) == score_dir[<<m, d>>].lines

Tagged(question, domain) ==
  /\ "involved_classes" \in DOMAIN question
  /\ \E i \in 1..Len(question.involved_classes) : question.involved_classes[i] = domain

TagCount(question) == Cardinality({domain \in Domains : Tagged(question, domain)})

\* the score file of model m for dataset d is one the run reads
Scored(m, d) ==
  /\ data_dir[d].state = "ok"
  /\ score_dir[<<m, d>>].state = "ok"
  /\ (model_name = <<>> \/ Contains(m, model_name))

\* the positions of the failure records (every record after the first) of a
\* score file the run reads
FailurePositions(m, d) == IF Scored(m, d) THEN 2..Len(ScoreOf(m, d)) ELSE {}

\* the failure record at position j names question i
Names(m, d, j, i) ==
  /\ "id" \in DOMAIN ScoreOf(m, d)[j]
  /\ "id" \in DOMAIN QuestionsOf(d)[i]
  /\ ScoreOf(m, d)[j].id # ""
  /\ ScoreOf(m, d)[j].id = QuestionsOf(d)[i].id

\* question i is the last one of its dataset with its id
LastOfId(d, i) ==
  \A k \in (i + 1)..Len(QuestionsOf(d)) :
     "id" \in DOMAIN QuestionsOf(d)[k] => QuestionsOf(d)[k].id # QuestionsOf(d)[i].id

\* the failure record at position j matches no question
Unmatched(m, d, j) == \A i \in 1..Len(QuestionsOf(d)) : ~Names(m, d, j, i)

\* the question a matched failure record is counted against
QuestionOf(m, d, j) ==
  QuestionsOf(d)[CHOOSE i \in 1..Len(QuestionsOf(d)) : Names(m, d, j, i) /\ LastOfId(d, i)]

-----------------------------------------------------------------------------
(* C1: after analyze_domain_performance, the total_instances of every      *)
(* (model, dataset, domain) entry is the number of question records of the *)
(* dataset's file whose involved_classes contains the domain.              *)
C1_TotalInstances ==
  Finished =>
    \A e \in Entries :
      Stats[e[1]][e[2]][e[3]].total_instances =
        Cardinality({i \in 1..Len(QuestionsOf(e[2])) : Tagged(QuestionsOf(e[2])[i], e[3])})

\* a question tagged with two domains was counted in both, one of them twice
C1_Witness ==
  /\ Finished
  /\ \E e \in Entries, f \in Entries :
       /\ e[1] = f[1] /\ e[2] = f[2] /\ e[3] # f[3]
       /\ Stats[e[1]][e[2]][e[3]].total_instances = 2
       /\ Stats[f[1]][f[2]][f[3]].total_instances = 1
       /\ \E i \in 1..Len(QuestionsOf(e[2])) : TagCount(QuestionsOf(e[2])[i]) = 2

RateOf(stat) ==
  IF stat.total_instances > 0
  THEN /\ stat.success_rate.den > 0
       /\ stat.success_rate.num * stat.total_instances =
            (stat.total_instances - stat.failed_instances) * stat.success_rate.den
       /\ stat.failed_instances = 0 => stat.success_rate.num = stat.success_rate.den
  ELSE stat.success_rate.num = 0

C3_SuccessRate ==
  Finished =>
    /\ \A e \in Entries : RateOf(Stats[e[1]][e[2]][e[3]])
    /\ \A k \in DOMAIN results.dataset_stats : RateOf(results.dataset_stats[k])

\* an empty dataset with a reported failure: the rate stays 0
C3_Witness ==
  /\ Finished
  /\ \E k \in DOMAIN results.dataset_stats :
       /\ results.dataset_stats[k].total_instances = 0
       /\ results.dataset_stats[k].failed_instances > 0
       /\ results.dataset_stats[k].success_rate = Zero

SumFailed(m, d) ==
  IF m \in DOMAIN Stats /\ d \in DOMAIN Stats[m]
  THEN SumOver([domain \in DOMAIN Stats[m][d] |-> Stats[m][d][domain].failed_instances],
               DOMAIN Stats[m][d])
  ELSE 0

\* the failure records counted against at least one domain
Counted(m, d) ==
  {j \in FailurePositions(m, d) :
     ~Unmatched(m, d, j) /\ TagCount(QuestionOf(m, d, j)) >= 1}

(* C4 as stated: for every (model, dataset) pair with a score file the sum *)
(* over the domains of failed_instances is at least the dataset-level      *)
(* failed_instances, with equality only when every failing question has    *)
(* exactly one domain.                                                     *)
C4_SumAtLeastDatasetFailed ==
  Finished =>
    \A m \in ModelDirs, d \in DatasetNames :
      Scored(m, d) =>
        LET level == results.dataset_stats[dataset_key(d, m)].failed_instances
        IN /\ SumFailed(m, d) >= level
           /\ SumFailed(m, d) = level =>
                \A j \in FailurePositions(m, d) :
                  ~Unmatched(m, d, j) => TagCount(QuestionOf(m, d, j)) = 1

(* C4, amended: for every (model, dataset) pair with a score file the sum  *)
(* over the domains of failed_instances is at least the number of failure  *)
(* records that name a question with a domain, with equality exactly when  *)
(* each of those questions has exactly one domain.                         *)
C4_SumAtLeastCounted ==
  Finished =>
    \A m \in ModelDirs, d \in DatasetNames :
      Scored(m, d) =>
        /\ SumFailed(m, d) >= Cardinality(Counted(m, d))
        /\ SumFailed(m, d) = Cardinality(Counted(m, d)) <=>
             \A j \in Counted(m, d) : TagCount(QuestionOf(m, d, j)) = 1

\* a failing question with two domains: the sum exceeds the number of records
C4_Witness ==
  /\ Finished
  /\ \E m \in ModelDirs, d \in DatasetNames :
       /\ Scored(m, d)
       /\ Cardinality(Counted(m, d)) >= 1
       /\ SumFailed(m, d) > Cardinality(Counted(m, d))

\* the dataset and the score file of the scenario, for model m and dataset d
Scenario(m, d) ==
  /\ data_dir[d] = ScenarioData
  /\ Scored(m, d)
  /\ Len(ScoreOf(m, d)) = 2
  /\ Get(ScoreOf(m, d)[1], "total_count", 0) = 3
  /\ Get(ScoreOf(m, d)[1], "correct_count", 0) = 2
  /\ Get(ScoreOf(m, d)[2], "id", "") = QuestionsOf(d)[2].id

(* C5: three questions tagged {A}, {A,B}, {B} and a score file with the    *)
(* summary {total_count 3, correct_count 2} and one failure record for the *)
(* second question give domain A {total 2, failed 1, rate 1/2}, domain B   *)
(* {total 2, failed 1, rate 1/2} and dataset level {total 3, failed 1,     *)
(* rate 2/3}.                                                              *)
C5_Scenario ==
  Finished =>
    \A m \in ModelDirs, d \in DatasetNames :
      Scenario(m, d) =>
        /\ DOMAIN Stats[m][d] = {DomA, DomB}
        /\ \A domain \in {DomA, DomB} :
             /\ Stats[m][d][domain].total_instances = 2
             /\ Stats[m][d][domain].failed_instances = 1
             /\ Stats[m][d][domain].success_rate = [num |-> 1, den |-> 2]
        /\ results.dataset_stats[dataset_key(d, m)] =
             [total_instances |-> 3, failed_instances |-> 1,
              success_rate |-> [num |-> 2, den |-> 3]]

C5_Witness == Finished /\ Scenario(MdShort, DsBase)

\* the score directory without record j of the score file of (m, d)
WithoutRecord(m, d, j) ==
  [score_dir EXCEPT ![<<m, d>>] =
     File(SubSeq(ScoreOf(m, d), 1, j - 1) \o SubSeq(ScoreOf(m, d), j + 1, Len(ScoreOf(m, d))))]

(* C6: a failure record whose id is missing or names no question of the    *)
(* dataset is ignored: the run raises nothing for it and returns what it   *)
(* returns with the record removed from the score file.                    *)
C6_UnmatchedIgnored ==
  \A m \in ModelDirs, d \in DatasetNames :
    \A j \in FailurePositions(m, d) :
      Unmatched(m, d, j) =>
        /\ Finished =>
             \E order \in Perms(data_files(data_dir)) :
               LET run == analyze_domain_performance(data_dir, WithoutRecord(m, d, j),
                                                     model_name, order)
               IN ~run.raised /\ run.results = results
        /\ pc = "raised" =>
             \A order \in Perms(data_files(data_dir)) :
               analyze_domain_performance(data_dir, WithoutRecord(m, d, j),
                                          model_name, order).raised

\* a score file with a record that names no question beside one that does
C6_Witness ==
  /\ Finished
  /\ \E m \in ModelDirs, d \in DatasetNames :
       \E j \in FailurePositions(m, d), k \in FailurePositions(m, d) :
         /\ Unmatched(m, d, j)
         /\ Get(ScoreOf(m, d)[j], "id", "") # ""
         /\ k \in Counted(m, d)

(* C7: overall_stats.total_instances and overall_stats.total_failed are    *)
(* the sums of total_instances and failed_instances over the entries of    *)
(* dataset_stats, not over the per-domain breakdowns.                      *)
C7_OverallFromDatasetStats ==
  Finished =>
    LET ds == results.dataset_stats
    IN /\ results.overall_stats.total_instances =
            SumOver([k \in DOMAIN ds |-> ds[k].total_instances], DOMAIN ds)
       /\ results.overall_stats.total_failed =
            SumOver([k \in DOMAIN ds |-> ds[k].failed_instances], DOMAIN ds)

\* a question in two domains: the breakdowns add up to more than the total
C7_Witness ==
  /\ Finished
  /\ results.overall_stats.total_failed >= 1
  /\ SumOver([e \in Entries |-> Stats[e[1]][e[2]][e[3]].total_instances], Entries)
       > results.overall_stats.total_instances
  /\ \E m \in ModelDirs, d \in DatasetNames :
       Scored(m, d) /\ SumFailed(m, d) > results.overall_stats.total_failed

\* a dataset file that is not JSON, or has a question record without an id
BadDataFile(d) ==
  \/ data_dir[d].state = "malformed"
  \/ data_dir[d].state = "ok" /\ ~HasIds(QuestionsOf(d))

(* C8 as stated: when the dataset file or the score file of a dataset and  *)
(* model is missing or malformed, analyze_domain_performance does not      *)
(* raise: the combination is skipped.                                      *)
C8_BadFilesSkipped ==
  (\/ \E d \in DatasetNames : data_dir[d].state = "absent" \/ BadDataFile(d)
   \/ \E x \in DOMAIN score_dir : score_dir[x].state # "ok")
    => pc # "raised"

\* the exported rows and the entries of the mapping, as (domain, model,
\* dataset, rate)
RecordSet == {<<records[i].Domain, records[i].Model, records[i].Dataset,
                records[i].Success_Rate>> : i \in 1..Len(records)}

EntrySet == {<<e[3], e[1], e[2], Stats[e[1]][e[2]][e[3]].success_rate>> : e \in Entries}

(* C9: dumping the result to JSON and flattening it with                   *)
(* extract_model_dataset_results gives exactly the (domain, model,         *)
(* dataset) triples of domain_stats_by_model_dataset, each with its        *)
(* success_rate: none lost, none added.                                    *)
C9_RoundTrip ==
  pc = "exported" => RecordSet = EntrySet /\ Len(records) = Cardinality(Entries)

\* three or more entries, one of them with a rate strictly between 0 and 1
C9_Witness ==
  /\ pc = "exported"
  /\ Len(records) >= 3
  /\ \E i \in 1..Len(records) :
       /\ 0 < records[i].Success_Rate.num
       /\ records[i].Success_Rate.num < records[i].Success_Rate.den

KeyOf(row) == <<row.Model, row.Dataset, row.Domain>>

\* row r comes strictly before row q by (Model, Dataset, Domain)
Ascending(r, q) ==
  \E i \in 1..3 :
    /\ StrLess(KeyOf(r)[i], KeyOf(q)[i])
    /\ \A j \in 1..(i - 1) : KeyOf(r)[j] = KeyOf(q)[j]

(* C10: the exporter emits one row per (model, dataset, domain) entry of   *)
(* the mapping, and the rows of the Domain_Performance sheet are in        *)
(* ascending order of (Model, Dataset, Domain).                            *)
C10_RowsSorted ==
  pc = "exported" =>
    /\ Len(records) = Cardinality(Entries)
    /\ {KeyOf(records[i]) : i \in 1..Len(records)} = Entries
    /\ sheet.written <=> Entries # {}
    /\ sheet.written =>
         /\ Len(sheet.rows) = Cardinality(Entries)
         /\ {KeyOf(sheet.rows[i]) : i \in 1..Len(sheet.rows)} = Entries
         /\ \A i \in 1..(Len(sheet.rows) - 1) : Ascending(sheet.rows[i], sheet.rows[i + 1])

\* a sheet of four or more rows that the mapping did not yield in order
C10_Witness ==
  /\ pc = "exported"
  /\ sheet.written
  /\ Len(sheet.rows) >= 4
  /\ \E i \in 1..Len(records) : KeyOf(records[i]) # KeyOf(sheet.rows[i])

\* the sub-directories of the score directory that hold a score file
ScoreDirectories ==
  {m \in ModelDirs : \E d \in DatasetNames : score_dir[<<m, d>>].state # "absent"}

\* the model filter lets directory m through
Selected(m) == model_name = <<>> \/ Contains(m, model_name)

HasTaggedQuestion(d) ==
  \E i \in 1..Len(QuestionsOf(d)) : \E domain \in Domains : Tagged(QuestionsOf(d)[i], domain)

\* C18: after a run that returns, every model of domain_stats_by_model_dataset
\* and of dataset_stats is a sub-directory of the score directory whose name
\* contains model_name when a filter is given (any sub-directory without one),
\* and every such sub-directory with a readable score file of a readable
\* dataset is included: in dataset_stats, and in domain_stats_by_model_dataset
\* when the dataset has a question with an involved class.  Directory names and
\* the filter are texts of letters and "_".
C18_ModelFilter ==
  Finished =>
    /\ \A m \in DOMAIN Stats : m \in ScoreDirectories /\ Selected(m)
    /\ \A key \in DOMAIN results.dataset_stats :
         \E m \in ScoreDirectories : \E d \in DatasetNames :
           key = dataset_key(d, m) /\ Scored(m, d)
    /\ \A m \in ModelDirs : \A d \in DatasetNames :
         Scored(m, d) =>
           /\ dataset_key(d, m) \in DOMAIN results.dataset_stats
           /\ HasTaggedQuestion(d) => (m \in DOMAIN Stats /\ d \in DOMAIN Stats[m])

\* a run with the filter "b_" over a score directory where both "b" and "b_b"
\* hold a readable score file of the same readable dataset: only "b_b" is in
\* the results
C18_Witness ==
  /\ Finished
  /\ model_name = <<98, 95>>
  /\ \E d \in DatasetNames :
       /\ data_dir[d].state = "ok"
       /\ HasTaggedQuestion(d)
       /\ score_dir[<<MdShort, d>>].state = "ok"
       /\ score_dir[<<MdLong, d>>].state = "ok"
       /\ dataset_key(d, MdLong) \in DOMAIN results.dataset_stats
  /\ DOMAIN Stats = {MdLong}

\* C21: in the result of a run, for a dataset and a domain, every model with
\* an entry for them has the same total_instances in
\* domain_stats_by_model_dataset.
C21_SameTotals ==
  Finished =>
    \A e \in Entries, f \in Entries :
      (e[2] = f[2] /\ e[3] = f[3]) =>
        Stats[e[1]][e[2]][e[3]].total_instances = Stats[f[1]][f[2]][f[3]].total_instances

\* two models have an entry for the same dataset and domain, one with a
\* failure counted and one without, and both with the total 2
C21_Witness ==
  /\ Finished
  /\ \E d \in DatasetNames, domain \in Domains :
       /\ MdShort \in DOMAIN Stats /\ MdLong \in DOMAIN Stats
       /\ d \in DOMAIN Stats[MdShort] /\ d \in DOMAIN Stats[MdLong]
       /\ domain \in DOMAIN Stats[MdShort][d] /\ domain \in DOMAIN Stats[MdLong][d]
       /\ Stats[MdShort][d][domain].total_instances = 2
       /\ Stats[MdShort][d][domain].failed_instances = 1
       /\ Stats[MdLong][d][domain].failed_instances = 0

\* total_count - correct_count of the summary record, 0 for an empty score file
SummaryFailed(m, d) ==
  IF ScoreOf(m, d) = <<>> THEN 0
  ELSE Get(ScoreOf(m, d)[1], "total_count", 0) - Get(ScoreOf(m, d)[1], "correct_count", 0)

\* C22: for each (dataset, model) whose score file loads, the dataset_stats
\* entry has total_instances = the number of question records of the dataset
\* file and failed_instances = total_count - correct_count of the first record
\* of the score file (0 when the score file is empty), and the first record is
\* not counted as a failure record: the failures counted over the domains are
\* those of the records after the first.
C22_DatasetStats ==
  Finished =>
    \A m \in ModelDirs, d \in DatasetNames :
      Scored(m, d) =>
        /\ dataset_key(d, m) \in DOMAIN results.dataset_stats
        /\ results.dataset_stats[dataset_key(d, m)].total_instances = Len(QuestionsOf(d))
        /\ results.dataset_stats[dataset_key(d, m)].failed_instances = SummaryFailed(m, d)
        /\ SumFailed(m, d) =
             SumOver([j \in Counted(m, d) |-> TagCount(QuestionOf(m, d, j))], Counted(m, d))

\* C26: every domain stat and every dataset stat of a result has
\* 0 <= failed_instances <= total_instances and a success_rate in [0, 1].
Within(stat) ==
  /\ 0 <= stat.failed_instances
  /\ stat.failed_instances <= stat.total_instances
  /\ stat.success_rate.den > 0
  /\ 0 <= stat.success_rate.num
  /\ stat.success_rate.num <= stat.success_rate.den

C26_FailedWithinTotal ==
  Finished =>
    /\ \A e \in Entries : Within(Stats[e[1]][e[2]][e[3]])
    /\ \A k \in DOMAIN results.dataset_stats : Within(results.dataset_stats[k])

\* C27: every (model, dataset) pair with entries in
\* domain_stats_by_model_dataset has a score file of the dataset under the
\* model's directory that loaded, and a dataset_stats entry.
C27_OnlyScoredPairs ==
  Finished =>
    \A p \in Pairs :
      /\ Scored(p[1], p[2])
      /\ dataset_key(p[2], p[1]) \in DOMAIN results.dataset_stats

\* the error type a failure record is counted under
ErrorTypeOf(record) == Get(Get(record, "error", EmptyMap), "error_type", "unknown")

\* C28: for every domain stat the counts of error_types sum to
\* failed_instances, and the count of each error type is the number of
\* counted failure records of that type, a record without error or without
\* error_type being of the type 'unknown'.
C28_ErrorTypesSum ==
  Finished =>
    \A e \in Entries :
      LET stat == Stats[e[1]][e[2]][e[3]]
          counted == {j \in Counted(e[1], e[2]) : Tagged(QuestionOf(e[1], e[2], j), e[3])}
      IN /\ SumOver(stat.error_types, DOMAIN stat.error_types) = stat.failed_instances
         /\ \A type \in DOMAIN stat.error_types :
              stat.error_types[type] =
                Cardinality({j \in counted : ErrorTypeOf(ScoreOf(e[1], e[2])[j]) = type})
         /\ \A j \in counted : ErrorTypeOf(ScoreOf(e[1], e[2])[j]) \in DOMAIN stat.error_types

\* a failure record without error and one of type e1 were counted against the
\* same domain
C28_Witness ==
  /\ Finished
  /\ \E e \in Entries :
       /\ Stats[e[1]][e[2]][e[3]].failed_instances = 2
       /\ Stats[e[1]][e[2]][e[3]].error_types = ("unknown" :> 1) @@ ("e1" :> 1)
       /\ \E j \in FailurePositions(e[1], e[2]) : "error" \notin DOMAIN ScoreOf(e[1], e[2])[j]

\* the (model, dataset) pairs with a score file the run reads
ScoredPairs == {p \in ModelDirs \X DatasetNames : Scored(p[1], p[2])}

\* C29: distinct (dataset, model) pairs with a score file have distinct
\* dataset_stats entries, each with the pair's own total and failed counts, and
\* overall_stats.total_instances is the sum of the dataset sizes over the
\* scored pairs.
C29_DistinctEntries ==
  Finished =>
    /\ \A p \in ScoredPairs, q \in ScoredPairs :
         p # q => dataset_key(p[2], p[1]) # dataset_key(q[2], q[1])
    /\ \A p \in ScoredPairs :
         /\ dataset_key(p[2], p[1]) \in DOMAIN results.dataset_stats
         /\ results.dataset_stats[dataset_key(p[2], p[1])].total_instances
              = Len(QuestionsOf(p[2]))
         /\ results.dataset_stats[dataset_key(p[2], p[1])].failed_instances
              = SummaryFailed(p[1], p[2])
    /\ results.overall_stats.total_instances =
         SumOver([p \in ScoredPairs |-> Len(QuestionsOf(p[2]))], ScoredPairs)

-----------------------------------------------------------------------------
(* data_loader.py: BFCLDataLoader                                          *)
(*                                                                         *)
(* A constructed loader has its data directory and its possible_answer     *)
(* directory (__init__ raises otherwise).  loader_dir is what they hold    *)
(* for the dataset asked for: the dataset file <name>.json, the answer     *)
(* file possible_answer/<name>.json and the multi_turn_func_doc directory. *)
(* The content of a conversation is never looked at: the value of the      *)
(* 'question' field is modelled by its JSON type only.  A function schema  *)
(* is a string naming it.                                                  *)

MaxQuestions == 2
MaxClasses == 2

GorillaFileSystem == <<71, 111, 114, 105, 108, 108, 97, 70, 105, 108, 101, 83, 121, 115, 116, 101, 109>>
gorilla_file_system == <<103, 111, 114, 105, 108, 108, 97, 95, 102, 105, 108, 101, 95, 115, 121, 115, 116, 101, 109>>
MathAPI == <<77, 97, 116, 104, 65, 80, 73>>
math_api == <<109, 97, 116, 104, 95, 97, 112, 105>>
MessageAPI == <<77, 101, 115, 115, 97, 103, 101, 65, 80, 73>>
message_api == <<109, 101, 115, 115, 97, 103, 101, 95, 97, 112, 105>>
TwitterAPI == <<84, 119, 105, 116, 116, 101, 114, 65, 80, 73>>
posting_api == <<112, 111, 115, 116, 105, 110, 103, 95, 97, 112, 105>>
TicketAPI == <<84, 105, 99, 107, 101, 116, 65, 80, 73>>
ticket_api == <<116, 105, 99, 107, 101, 116, 95, 97, 112, 105>>
TradingBot == <<84, 114, 97, 100, 105, 110, 103, 66, 111, 116>>
trading_bot == <<116, 114, 97, 100, 105, 110, 103, 95, 98, 111, 116>>
TravelAPI == <<84, 114, 97, 118, 101, 108, 65, 80, 73>>
travel_booking == <<116, 114, 97, 118, 101, 108, 95, 98, 111, 111, 107, 105, 110, 103>>
VehicleControlAPI == <<86, 101, 104, 105, 99, 108, 101, 67, 111, 110, 116, 114, 111, 108, 65, 80, 73>>
vehicle_control == <<118, 101, 104, 105, 99, 108, 101, 95, 99, 111, 110, 116, 114, 111, 108>>

multi_turn == <<109, 117, 108, 116, 105, 95, 116, 117, 114, 110>>   \* "multi_turn"
NameSimple == <<115>>                                               \* "s"
NameMultiTurn == multi_turn \o <<95, 97>>                           \* "multi_turn_a"
Foo == <<70, 111, 111>>                                             \* "Foo"
foo == <<102, 111, 111>>                                            \* "foo"
twitterapi == <<116, 119, 105, 116, 116, 101, 114, 97, 112, 105>>   \* "twitterapi"

\* the outcome of a call: the exception raised, or the value returned
NoError == "none"
Raise(e) == [raised |-> e, value |-> <<>>]
Return(v) == [raised |-> NoError, value |-> v]

\* the JSON types a 'question' field was given
ListValue == [type |-> "list"]
StrValue == [type |-> "str"]

\* the multi_turn_func_doc directory does not exist
NoDir == [exists |-> FALSE, files |-> EmptyMap]
Dir(files) == [exists |-> TRUE, files |-> files]

\* bfcl_eval.utils.load_file: the records of a newline-delimited JSON file,
\* one per line; with sort_by_id they come back in the order of the sort,
\* which is the permutation order of the lines
load_file(file, sort_by_id, order) ==
  IF sort_by_id THEN [i \in 1..Len(file.lines) |-> file.lines[order[i]]]
  ELSE file.lines

is_multi_turn_dataset(name) == Contains(name, multi_turn)

\* str.lower on the letters A-Z
Lower(s) == [i \in 1..Len(s) |-> IF s[i] \in 65..90 THEN s[i] + 32 ELSE s[i]]

class_to_doc_mapping ==
  (GorillaFileSystem :> gorilla_file_system) @@ (MathAPI :> math_api) @@
  (MessageAPI :> message_api) @@ (TwitterAPI :> posting_api) @@
  (TicketAPI :> ticket_api) @@ (TradingBot :> trading_bot) @@
  (TravelAPI :> travel_booking) @@ (VehicleControlAPI :> vehicle_control)

\* looks every class up by its lowercased name
get_func_doc_name_lower(class_name) == Lower(class_name)

\* _get_func_doc_name
get_func_doc_name(class_name) ==
  Get(class_to_doc_mapping, class_name, Lower(class_name))

\* the inner loop over question["involved_classes"]
RECURSIVE question_functions(_, _)
question_functions(all_functions, classes) ==
  IF classes = <<>> THEN <<>>
  ELSE LET func_doc_name == get_func_doc_name(Head(classes))
       IN (IF func_doc_name \in DOMAIN all_functions
           THEN all_functions[func_doc_name] ELSE <<>>)
          \o question_functions(all_functions, Tail(classes))

\* _add_multi_turn_functions: every doc file is read, then every question
\* gets its 'function' field
add_multi_turn_functions(func_doc, questions) ==
  IF ~func_doc.exists THEN Return(questions)
  ELSE IF \E stem \in DOMAIN func_doc.files : ~Loads(func_doc.files[stem])
  THEN Raise("JSONDecodeError")
  ELSE LET all_functions ==
             [stem \in DOMAIN func_doc.files |-> func_doc.files[stem].lines]
       IN Return([i \in 1..Len(questions) |->
                    Put(questions[i], "function",
                        IF "involved_classes" \in DOMAIN questions[i]
                        THEN question_functions(all_functions,
                                                questions[i]["involved_classes"])
                        ELSE <<>>)])

\* refuses a dataset in which two records carry the same id
load_questions_gated(dir, name, sort_by_id, order) ==
  IF dir.dataset.state = "absent" THEN Raise("FileNotFoundError")
  ELSE IF ~Loads(dir.dataset) THEN Raise("JSONDecodeError")
  ELSE IF \E i, j \in 1..Len(dir.dataset.lines) :
             /\ i # j
             /\ "id" \in DOMAIN dir.dataset.lines[i]
             /\ "id" \in DOMAIN dir.dataset.lines[j]
             /\ dir.dataset.lines[i]["id"] = dir.dataset.lines[j]["id"]
  THEN Raise("ValueError")
  ELSE LET questions == load_file(dir.dataset, sort_by_id, order)
       IN IF is_multi_turn_dataset(name)
          THEN add_multi_turn_functions(dir.func_doc, questions)
          ELSE Return(questions)

load_questions(dir, name, sort_by_id, order) ==
  IF dir.dataset.state = "absent" THEN Raise("FileNotFoundError")
  ELSE IF ~Loads(dir.dataset) THEN Raise("JSONDecodeError")
  ELSE LET questions == load_file(dir.dataset, sort_by_id, order)
       IN IF is_multi_turn_dataset(name)
          THEN add_multi_turn_functions(dir.func_doc, questions)
          ELSE Return(questions)

\* treats a missing answer file like a missing dataset file
load_ground_truth_strict(dir, name, sort_by_id, order) ==
  IF dir.answer.state = "absent" THEN Raise("FileNotFoundError")
  ELSE IF ~Loads(dir.answer) THEN Raise("JSONDecodeError")
  ELSE Return(load_file(dir.answer, sort_by_id, order))

load_ground_truth(dir, name, sort_by_id, order) ==
  IF dir.answer.state = "absent" THEN Return(<<>>)
  ELSE IF ~Loads(dir.answer) THEN Raise("JSONDecodeError")
  ELSE Return(load_file(dir.answer, sort_by_id, order))

load_dataset(dir, name, sort_by_id, order_q, order_g) ==
  LET questions == load_questions(dir, name, sort_by_id, order_q)
      ground_truth == load_ground_truth(dir, name, sort_by_id, order_g)
  IN IF questions.raised # NoError THEN questions
     ELSE IF ground_truth.raised # NoError THEN ground_truth
     ELSE Return(<<questions.value, ground_truth.value>>)

\* A message of the report.  index is the number an f-string puts into the
\* text (-1 when it has none), field the field name, ids the set of ids and
\* path the file it names.
Message(text, index, field, ids, path) ==
  [text |-> text, index |-> index, field |-> field, ids |-> ids, path |-> path]

Plain(text) == Message(text, -1, "", {}, <<>>)

NotFound(name) == Message("Dataset file not found", -1, "", {}, name)

\* [q["id"] for q in questions] raises KeyError for a record without 'id'
Ids(recs) == [i \in 1..Len(recs) |-> recs[i]["id"]]

\* len(ids) != len(set(ids))
HasDuplicates(ids) == Len(ids) # Cardinality(Range(ids))

\* checks the question ids a second time
ground_truth_messages_copied(question_ids, ground_truth) ==
  IF ground_truth = <<>>
  THEN [errors |-> <<>>,
        warnings |-> <<Plain("No ground truth available for this dataset")>>]
  ELSE LET ground_truth_ids == Ids(ground_truth)
           missing_questions == Range(ground_truth_ids) \ Range(question_ids)
           missing_ground_truth == Range(question_ids) \ Range(ground_truth_ids)
       IN [errors |->
             IF HasDuplicates(question_ids)
             THEN <<Plain("Duplicate ground truth IDs found")>> ELSE <<>>,
           warnings |->
             (IF missing_questions # {}
              THEN <<Message("Ground truth IDs without corresponding questions",
                             -1, "", missing_questions, <<>>)>>
              ELSE <<>>)
             \o (IF missing_ground_truth # {}
                 THEN <<Message("Questions without ground truth",
                                Cardinality(missing_ground_truth), "", {}, <<>>)>>
                 ELSE <<>>)]

\* "Check if ground truth exists and has matching IDs"
ground_truth_messages(question_ids, ground_truth) ==
  IF ground_truth = <<>>
  THEN [errors |-> <<>>,
        warnings |-> <<Plain("No ground truth available for this dataset")>>]
  ELSE LET ground_truth_ids == Ids(ground_truth)
           missing_questions == Range(ground_truth_ids) \ Range(question_ids)
           missing_ground_truth == Range(question_ids) \ Range(ground_truth_ids)
       IN [errors |->
             IF HasDuplicates(ground_truth_ids)
             THEN <<Plain("Duplicate ground truth IDs found")>> ELSE <<>>,
           warnings |->
             (IF missing_questions # {}
              THEN <<Message("Ground truth IDs without corresponding questions",
                             -1, "", missing_questions, <<>>)>>
              ELSE <<>>)
             \o (IF missing_ground_truth # {}
                 THEN <<Message("Questions without ground truth",
                                Cardinality(missing_ground_truth), "", {}, <<>>)>>
                 ELSE <<>>)]

Missing(question, i, field) ==
  IF field \in DOMAIN question THEN <<>>
  ELSE <<Message("Question missing field", i, field, {}, <<>>)>>

\* "Validate question structure" for the question that enumerate numbers i
structure_errors(question, i) ==
  Missing(question, i, "id") \o Missing(question, i, "question")
  \o Missing(question, i, "function")
  \o (IF "question" \in DOMAIN question /\ question["question"] # ListValue
      THEN <<Message("Question field is not a list", i, "question", {}, <<>>)>>
      ELSE <<>>)

RECURSIVE all_structure_errors(_, _)
all_structure_errors(questions, n) ==
  IF n = 0 THEN <<>>
  ELSE all_structure_errors(questions, n - 1) \o structure_errors(questions[n], n - 1)

Report(errors, warnings) ==
  [is_valid |-> Len(errors) = 0, errors |-> errors, warnings |-> warnings]

validate_dataset(dir, name) ==
  LET questions == load_questions(dir, name, FALSE, <<>>)
      ground_truth == load_ground_truth(dir, name, FALSE, <<>>)
  IN IF questions.raised = "FileNotFoundError"
     THEN Return([is_valid |-> FALSE, errors |-> <<NotFound(name)>>, warnings |-> <<>>])
     ELSE IF questions.raised # NoError THEN Raise(questions.raised)
     ELSE IF ground_truth.raised # NoError THEN Raise(ground_truth.raised)
     ELSE IF ~HasIds(questions.value) THEN Raise("KeyError")
     ELSE IF ~HasIds(ground_truth.value) THEN Raise("KeyError")
     ELSE LET question_ids == Ids(questions.value)
              checked == ground_truth_messages(question_ids, ground_truth.value)
          IN Return(Report(
               (IF HasDuplicates(question_ids)
                THEN <<Plain("Duplicate question IDs found")>> ELSE <<>>)
               \o checked.errors
               \o all_structure_errors(questions.value, Len(questions.value)),
               checked.warnings))

-----------------------------------------------------------------------------
(* The loader's inputs and calls *)

Optional(recs, key, values) == recs \cup {Put(r, key, v) : r \in recs, v \in values}

\* question records of a single-turn dataset, any of the required fields missing
QuestionRecords ==
  Optional(Optional(Optional({EmptyMap}, "id", {"q1", "q2"}),
                    "question", {ListValue, StrValue}),
           "function", {<<>>})

\* question records with their 'question' and 'function', with or without id
IdRecords ==
  {r \in QuestionRecords :
     /\ {"question", "function"} \subseteq DOMAIN r
     /\ r["question"] = ListValue}

Answer(id) == [id |-> id, ground_truth |-> <<>>]

AnswerMenu ==
  {Absent, Malformed, File(<<>>),
   File(<<Answer("q1")>>), File(<<Answer("q2")>>),
   File(<<Answer("q1"), Answer("q1")>>), File(<<Answer("q1"), Answer("q2")>>),
   File(<<[ground_truth |-> <<>>]>>)}

ClassNames == {MathAPI, TwitterAPI, Foo, math_api}

\* question records of a multi-turn dataset file: no 'function' field
Turns(id, classes) ==
  [id |-> id, question |-> ListValue, involved_classes |-> classes]

NoClasses(id) == [id |-> id, question |-> ListValue]

MultiTurnFiles ==
  LET first == {NoClasses("q2")} \cup
               {Turns("q2", classes) : classes \in SeqsUpTo(ClassNames, MaxClasses)}
      rest == {<<>>, <<NoClasses("q1")>>, <<Turns("q1", <<MathAPI>>)>>}
  IN {File(<<q>> \o r) : q \in first, r \in rest}

DocDirs ==
  {NoDir,
   Dir(EmptyMap),
   Dir((math_api :> File(<<"add", "mul">>)) @@ (posting_api :> File(<<"post">>))),
   Dir((math_api :> File(<<"add">>)) @@ (foo :> File(<<"bar">>))
       @@ (twitterapi :> File(<<"tweet">>))),
   Dir((math_api :> File(<<"add">>)) @@ (foo :> Malformed))}

NotLoaded == [op |-> "none", sort_by_id |-> FALSE, raised |-> NoError, value |-> <<>>]

NotCalled == [called |-> FALSE, raised |-> NoError, value |-> <<>>]

LoaderDir(dataset, answer, func_doc) ==
  [dataset |-> dataset, answer |-> answer, func_doc |-> func_doc]

\* no loader was constructed
LoaderOff ==
  /\ loader_dir = LoaderDir(Absent, Absent, NoDir)
  /\ loader_name = <<>>
  /\ loaded = NotLoaded
  /\ report = NotCalled

\* a single-turn dataset, every small dataset file
InitRecords ==
  /\ \E dataset \in {Absent, Malformed} \cup
                    {File(lines) : lines \in SeqsUpTo(QuestionRecords, MaxQuestions)},
        answer \in {Absent, File(<<Answer("q1")>>)} :
       loader_dir = LoaderDir(dataset, answer, NoDir)
  /\ loader_name = NameSimple
  /\ loaded = NotLoaded
  /\ report = NotCalled

\* a single-turn dataset of complete questions (but for the id), every
\* answer file of the menu
InitAnswers ==
  /\ \E dataset \in {Absent, Malformed} \cup
                    {File(lines) : lines \in SeqsUpTo(IdRecords, MaxQuestions)},
        answer \in AnswerMenu :
       loader_dir = LoaderDir(dataset, answer, NoDir)
  /\ loader_name = NameSimple
  /\ loaded = NotLoaded
  /\ report = NotCalled

\* a dataset whose questions name classes, with and without 'multi_turn'
\* in its name
InitMultiTurn ==
  /\ \E dataset \in MultiTurnFiles, answer \in {Absent, File(<<Answer("q2")>>)},
        func_doc \in DocDirs :
       loader_dir = LoaderDir(dataset, answer, func_doc)
  /\ loader_name \in {NameSimple, NameMultiTurn}
  /\ loaded = NotLoaded
  /\ report = NotCalled

Orders(file) == Perms(1..Len(file.lines))

Loaded(op, sort_by_id, outcome) ==
  [op |-> op, sort_by_id |-> sort_by_id, raised |-> outcome.raised,
   value |-> outcome.value]

\* loader.load_questions(loader_name, sort_by_id)
LoadQuestions ==
  /\ loaded = NotLoaded
  /\ \E sort_by_id \in BOOLEAN, order \in Orders(loader_dir.dataset) :
       loaded' = Loaded("load_questions", sort_by_id,
                        load_questions(loader_dir, loader_name, sort_by_id, order))
  /\ UNCHANGED <<loader_dir, loader_name, report, notLoaderVars>>

\* loader.load_ground_truth(loader_name, sort_by_id)
LoadGroundTruth ==
  /\ loaded = NotLoaded
  /\ \E sort_by_id \in BOOLEAN, order \in Orders(loader_dir.answer) :
       loaded' = Loaded("load_ground_truth", sort_by_id,
                        load_ground_truth(loader_dir, loader_name, sort_by_id, order))
  /\ UNCHANGED <<loader_dir, loader_name, report, notLoaderVars>>

\* loader.load_dataset(loader_name, sort_by_id)
LoadDataset ==
  /\ loaded = NotLoaded
  /\ \E sort_by_id \in BOOLEAN, order_q \in Orders(loader_dir.dataset),
        order_g \in Orders(loader_dir.answer) :
       loaded' = Loaded("load_dataset", sort_by_id,
                        load_dataset(loader_dir, loader_name, sort_by_id,
                                     order_q, order_g))
  /\ UNCHANGED <<loader_dir, loader_name, report, notLoaderVars>>

\* loader.validate_dataset(loader_name)
ValidateDataset ==
  /\ ~report.called
  /\ LET outcome == validate_dataset(loader_dir, loader_name)
     IN report' = [called |-> TRUE, raised |-> outcome.raised, value |-> outcome.value]
  /\ UNCHANGED <<loader_dir, loader_name, loaded, notLoaderVars>>

-----------------------------------------------------------------------------
(* What the claims about the loader speak about *)

\* the call made was op and it returned
ReturnedFrom(op) == loaded.op = op /\ loaded.raised = NoError

\* validate_dataset was called and returned a report
Reported == report.called /\ report.raised = NoError

\* two records of a file carry the same id
SharedId(file) ==
  \E i, j \in 1..Len(file.lines) :
     /\ i # j
     /\ "id" \in DOMAIN file.lines[i]
     /\ "id" \in DOMAIN file.lines[j]
     /\ file.lines[i]["id"] = file.lines[j]["id"]

\* the files a load of the questions reads are newline-delimited JSON
QuestionsReadable ==
  /\ loader_dir.dataset.state = "ok"
  /\ \A stem \in DOMAIN loader_dir.func_doc.files :
        loader_dir.func_doc.files[stem].state = "ok"

AnswersReadable == loader_dir.answer.state = "ok"

-----------------------------------------------------------------------------
(* C11: load_questions raises the not-found error when the dataset file is *)
(* absent; load_ground_truth returns the empty list, without an error,     *)
(* when the answer file is absent; load_dataset on a dataset that has a    *)
(* dataset file and no answer file ends as load_questions does and, when   *)
(* that returns, returns its questions paired with the empty list.         *)
C11_AbsentFiles ==
  /\ (loaded.op = "load_questions" /\ loader_dir.dataset = Absent)
       => loaded.raised = "FileNotFoundError"
  /\ (loaded.op = "load_ground_truth" /\ loader_dir.answer = Absent)
       => (loaded.raised = NoError /\ loaded.value = <<>>)
  /\ (loaded.op = "load_dataset" /\ loader_dir.dataset # Absent
      /\ loader_dir.answer = Absent)
       => \E order \in Orders(loader_dir.dataset) :
            LET questions == load_questions(loader_dir, loader_name,
                                            loaded.sort_by_id, order)
            IN IF questions.raised # NoError
               THEN loaded.raised = questions.raised
               ELSE /\ loaded.raised = NoError
                    /\ loaded.value = <<questions.value, <<>>>>

\* load_dataset returned two questions and no answers for a dataset without
\* an answer file
C11_Witness ==
  /\ ReturnedFrom("load_dataset")
  /\ loader_dir.answer = Absent
  /\ Len(loader_dir.dataset.lines) = 2
  /\ Len(loaded.value[1]) = 2
  /\ loaded.value[2] = <<>>

-----------------------------------------------------------------------------
(* C12 as stated: in every report validate_dataset returns, two question  *)
(* records sharing an id put the duplicate-question-ID error into the      *)
(* report and make it invalid, two ground-truth records sharing an id do   *)
(* the same with the duplicate-ground-truth-ID error, and is_valid is true *)
(* exactly when the error list is empty, whatever the warnings.            *)
DuplicatesFlagged ==
  /\ SharedId(loader_dir.dataset)
       => /\ Plain("Duplicate question IDs found") \in Range(report.value.errors)
          /\ ~report.value.is_valid
  /\ SharedId(loader_dir.answer)
       => /\ Plain("Duplicate ground truth IDs found") \in Range(report.value.errors)
          /\ ~report.value.is_valid

ValidIffNoErrors == report.value.is_valid <=> (report.value.errors = <<>>)

C12_DuplicatesFlagged == Reported => (DuplicatesFlagged /\ ValidIffNoErrors)

(* C12 as amended: the same for a dataset whose dataset file exists; when  *)
(* the dataset file is missing the report holds the not-found error only,  *)
(* whatever the answer file holds, and is invalid.                         *)
C12_DuplicatesFlaggedInDataset ==
  Reported =>
    /\ ValidIffNoErrors
    /\ IF loader_dir.dataset = Absent
       THEN report.value.errors = <<NotFound(loader_name)>>
       ELSE DuplicatesFlagged

\* a report on distinct questions whose answers share an id
C12_Witness ==
  /\ Reported
  /\ SharedId(loader_dir.answer)
  /\ ~SharedId(loader_dir.dataset)
  /\ Len(loader_dir.dataset.lines) = 2
  /\ ~report.value.is_valid

-----------------------------------------------------------------------------
(* C13: when a loaded question record lacks 'id', 'question' or            *)
(* 'function', validate_dataset returns (it does not raise) a report that  *)
(* is invalid and holds, for every record, one missing-field error per     *)
(* required field the record lacks.                                        *)
RequiredFields == {"id", "question", "function"}

\* the records validate_dataset looks at
Validated == load_questions(loader_dir, loader_name, FALSE, <<>>).value

MissingErrors(i) ==
  {k \in 1..Len(report.value.errors) :
     /\ report.value.errors[k].text = "Question missing field"
     /\ report.value.errors[k].index = i - 1}

C13_MissingFieldsReported ==
  (/\ report.called
   /\ QuestionsReadable
   /\ loader_dir.answer.state # "malformed"
   /\ HasIds(loader_dir.answer.lines)
   /\ \E i \in 1..Len(Validated) : ~(RequiredFields \subseteq DOMAIN Validated[i]))
  => /\ report.raised = NoError
     /\ ~report.value.is_valid
     /\ \A i \in 1..Len(Validated) :
          Cardinality(MissingErrors(i))
            = Cardinality(RequiredFields \ DOMAIN Validated[i])

-----------------------------------------------------------------------------
(* C14: loading is not gated by validation.  Whenever the files a load_*   *)
(* call reads exist and hold JSON records, the call returns every record   *)
(* of the file (in file order without sort_by_id, the questions of a       *)
(* multi-turn dataset with their 'function' field set), also when          *)
(* validate_dataset reports the dataset invalid; and for a missing dataset *)
(* file validate_dataset returns a report with is_valid false and the      *)
(* not-found message.                                                      *)
Agrees(loaded_record, file_record) ==
  \A k \in (DOMAIN file_record) \ {"function"} :
     k \in DOMAIN loaded_record /\ loaded_record[k] = file_record[k]

AllRecords(value, file, sort_by_id) ==
  /\ Len(value) = Len(file.lines)
  /\ \E order \in Orders(file) :
       /\ ~sort_by_id => \A i \in 1..Len(value) : order[i] = i
       /\ \A i \in 1..Len(value) : Agrees(value[i], file.lines[order[i]])

C14_LoadingNotGated ==
  /\ (loaded.op = "load_questions" /\ QuestionsReadable)
       => /\ loaded.raised = NoError
          /\ AllRecords(loaded.value, loader_dir.dataset, loaded.sort_by_id)
  /\ (loaded.op = "load_ground_truth" /\ AnswersReadable)
       => /\ loaded.raised = NoError
          /\ AllRecords(loaded.value, loader_dir.answer, loaded.sort_by_id)
  /\ (loaded.op = "load_dataset" /\ QuestionsReadable /\ AnswersReadable)
       => /\ loaded.raised = NoError
          /\ AllRecords(loaded.value[1], loader_dir.dataset, loaded.sort_by_id)
          /\ AllRecords(loaded.value[2], loader_dir.answer, loaded.sort_by_id)
  /\ (report.called /\ loader_dir.dataset = Absent)
       => /\ report.raised = NoError
          /\ ~report.value.is_valid
          /\ report.value.errors = <<NotFound(loader_name)>>

\* a dataset with a duplicate id was reported invalid and load_dataset
\* returned both of its questions
C14_Witness ==
  /\ Reported
  /\ ~report.value.is_valid
  /\ SharedId(loader_dir.dataset)
  /\ ReturnedFrom("load_dataset")
  /\ Len(loaded.value[1]) = 2

-----------------------------------------------------------------------------
(* C15 as stated: every question load_questions returns for a multi-turn   *)
(* dataset has as its 'function' list the schema lists of the doc files    *)
(* its involved_classes map to (by the class table, by the lowercased name *)
(* for a class not in the table), concatenated in involved_classes order,  *)
(* a class without a doc file adding nothing, and the empty list when it   *)
(* has no involved_classes.                                                *)
SchemasOf(class_name) ==
  LET stem == IF class_name \in DOMAIN class_to_doc_mapping
              THEN class_to_doc_mapping[class_name] ELSE Lower(class_name)
  IN IF stem \in DOMAIN loader_dir.func_doc.files
     THEN loader_dir.func_doc.files[stem].lines ELSE <<>>

RECURSIVE Joined(_)
Joined(classes) ==
  IF classes = <<>> THEN <<>>
  ELSE Joined(SubSeq(classes, 1, Len(classes) - 1)) \o SchemasOf(classes[Len(classes)])

FunctionsJoined ==
  \A i \in 1..Len(loaded.value) :
     /\ "function" \in DOMAIN loaded.value[i]
     /\ loaded.value[i]["function"] =
          IF "involved_classes" \in DOMAIN loaded.value[i]
          THEN Joined(loaded.value[i]["involved_classes"]) ELSE <<>>

-----------------------------------------------------------------------------
(* explorer_data.py: apply_filters, with utils.extract_id_number_global    *)
(*                                                                         *)
(* An item is a failure record of a score file: an object with the keys    *)
(* 'id' and 'error', in this order, either of which may be missing.  All   *)
(* of its text is a sequence of code points, since the search looks into   *)
(* the JSON text of the item.  The texts of the inputs are ASCII letters,  *)
(* digits, '_', '-', '+' and the blank.                                    *)

MaxRange == 3
MaxData == 2

IdKey == <<105, 100>>                                               \* "id"
ErrorKey == <<101, 114, 114, 111, 114>>                             \* "error"
ErrorTypeKey == <<101, 114, 114, 111, 114, 95, 116, 121, 112, 101>> \* "error_type"
ErrorMessageKey ==
  <<101, 114, 114, 111, 114, 95, 109, 101, 115, 115, 97, 103, 101>> \* "error_message"
JsonNull == <<110, 117, 108, 108>>                                  \* "null"
All == <<65, 108, 108>>                                             \* "All"
Unknown == <<85, 110, 107, 110, 111, 119, 110>>                     \* "Unknown"

\* JSON null as the value of 'error'
Null == [null |-> TRUE]

IsNull(value) == "null" \in DOMAIN value

IsDigit(c) == c \in 48..57

Least(S) == CHOOSE x \in S : \A y \in S : x <= y

Greatest(S) == CHOOSE x \in S : \A y \in S : x >= y

\* int of a run of decimal digits
RECURSIVE Decimal(_)
Decimal(digits) ==
  IF digits = <<>> THEN 0
  ELSE 10 * Decimal(SubSeq(digits, 1, Len(digits) - 1)) + (digits[Len(digits)] - 48)

\* str.strip() of a text whose only whitespace is the blank
Strip(s) ==
  LET kept == {i \in 1..Len(s) : s[i] # 32}
  IN IF kept = {} THEN <<>> ELSE SubSeq(s, Least(kept), Greatest(kept))

Signed(t) == t # <<>> /\ t[1] \in {43, 45}

\* int(t) does not raise NumbersError: an optional sign, then digits
IsInt(t) ==
  LET digits == IF Signed(t) THEN Tail(t) ELSE t
  IN digits # <<>> /\ \A i \in 1..Len(digits) : IsDigit(digits[i])

int(t) ==
  LET digits == IF Signed(t) THEN Tail(t) ELSE t
  IN IF t[1] = 45 THEN 0 - Decimal(digits) ELSE Decimal(digits)

\* the run of digits that ends at position e
DigitRun(s, e) ==
  LET b == Least({j \in 1..e : \A k \in j..e : IsDigit(s[k])})
  IN SubSeq(s, b, e)

\* takes the first number of an id that does not end with a digit
extract_id_number_global_first(item_id) ==
  IF item_id = <<>> THEN <<>>
  ELSE IF IsDigit(item_id[Len(item_id)])
  THEN <<Decimal(DigitRun(item_id, Len(item_id)))>>
  ELSE LET ends == {i \in 1..Len(item_id) :
                      IsDigit(item_id[i]) /\ (i = Len(item_id) \/ ~IsDigit(item_id[i + 1]))}
       IN IF ends = {} THEN <<>>
          ELSE <<Decimal(DigitRun(item_id, Least(ends)))>>

\* extract_id_number_global: <<>> is None, <<n>> the number n
extract_id_number_global(item_id) ==
  IF item_id = <<>> THEN <<>>
  ELSE IF IsDigit(item_id[Len(item_id)])
  THEN <<Decimal(DigitRun(item_id, Len(item_id)))>>
  ELSE LET ends == {i \in 1..Len(item_id) : IsDigit(item_id[i])}
       IN IF ends = {} THEN <<>>
          ELSE <<Decimal(DigitRun(item_id, Greatest(ends)))>>

\* json.dumps of a text without characters to escape
Quoted(s) == <<34>> \o s \o <<34>>

Member(key, value) == Quoted(key) \o <<58, 32>> \o value

dumps_error(error) ==
  IF IsNull(error) THEN JsonNull
  ELSE LET type == IF "error_type" \in DOMAIN error
                   THEN <<Member(ErrorTypeKey, Quoted(error["error_type"]))>> ELSE <<>>
           message == IF "error_message" \in DOMAIN error
                      THEN <<Member(ErrorMessageKey, Quoted(error["error_message"]))>>
                      ELSE <<>>
           members == type \o message
       IN <<123>>
          \o (IF members = <<>> THEN <<>>
              ELSE IF Len(members) = 1 THEN members[1]
              ELSE members[1] \o <<44, 32>> \o members[2])
          \o <<125>>

\* json.dumps(item, default=str)
json_dumps(item) ==
  LET id == IF "id" \in DOMAIN item THEN <<Member(IdKey, Quoted(item["id"]))>> ELSE <<>>
      error == IF "error" \in DOMAIN item
               THEN <<Member(ErrorKey, dumps_error(item["error"]))>> ELSE <<>>
      members == id \o error
  IN <<123>>
     \o (IF members = <<>> THEN <<>>
         ELSE IF Len(members) = 1 THEN members[1]
         ELSE members[1] \o <<44, 32>> \o members[2])
     \o <<125>>

\* "Apply search filter (searches full JSON content)"
search_filter(data, search_term) ==
  LET Found(item) == Contains(Lower(json_dumps(item)), Lower(search_term))
  IN IF search_term # <<>> THEN SelectSeq(data, Found) ELSE data

\* bool(item['error']): null and the empty object are false
Truthy(error) == ~IsNull(error) /\ DOMAIN error # {}

\* "Apply error type filter"
error_type_filter(data, error_type) ==
  LET OfType(item) ==
        /\ "error" \in DOMAIN item
        /\ Truthy(item["error"])
        /\ Get(item["error"], "error_type", Unknown) = error_type
  IN IF error_type # <<>> /\ error_type # All THEN SelectSeq(data, OfType) ELSE data

FormatError == "Range format should be 'start-end' (e.g., '45-90')"
NumbersError == "Range values must be numbers (e.g., '45-90')"
OrderError == "Range start must be less than or equal to range end"

InRange(item, start_num, end_num) ==
  LET number == extract_id_number_global(Get(item, "id", <<>>))
  IN number # <<>> /\ start_num <= number[1] /\ number[1] <= end_num

\* keeps the ids in the range without comparing its two ends
range_filter_unordered(data, range_filter) ==
  LET dashes == {i \in 1..Len(range_filter) : range_filter[i] = 45}
  IN IF Cardinality(dashes) # 1
     THEN [filtered_data |-> data, errors |-> <<FormatError>>]
     ELSE LET dash == CHOOSE i \in dashes : TRUE
              start_str == Strip(SubSeq(range_filter, 1, dash - 1))
              end_str == Strip(SubSeq(range_filter, dash + 1, Len(range_filter)))
          IN IF ~IsInt(start_str) \/ ~IsInt(end_str)
             THEN [filtered_data |-> data, errors |-> <<NumbersError>>]
             ELSE LET Kept(item) == InRange(item, int(start_str), int(end_str))
                  IN [filtered_data |-> SelectSeq(data, Kept), errors |-> <<>>]

\* "Apply range filter": range_filter.split('-') has two parts exactly when
\* the text has one '-'
range_filter_step(data, range_filter) ==
  LET dashes == {i \in 1..Len(range_filter) : range_filter[i] = 45}
  IN IF Cardinality(dashes) # 1
     THEN [filtered_data |-> data, errors |-> <<FormatError>>]
     ELSE LET dash == CHOOSE i \in dashes : TRUE
              start_str == Strip(SubSeq(range_filter, 1, dash - 1))
              end_str == Strip(SubSeq(range_filter, dash + 1, Len(range_filter)))
          IN IF ~IsInt(start_str) \/ ~IsInt(end_str)
             THEN [filtered_data |-> data, errors |-> <<NumbersError>>]
             ELSE IF int(start_str) <= int(end_str)
             THEN LET Kept(item) == InRange(item, int(start_str), int(end_str))
                  IN [filtered_data |-> SelectSeq(data, Kept), errors |-> <<>>]
             ELSE [filtered_data |-> data, errors |-> <<OrderError>>]

\* apply_filters: the list returned and the messages given to st.error
apply_filters(data, search_term, error_type, range_filter) ==
  LET searched == search_filter(data, search_term)
      typed == error_type_filter(searched, error_type)
  IN IF range_filter # <<>> THEN range_filter_step(typed, range_filter)
     ELSE [filtered_data |-> typed, errors |-> <<>>]

-----------------------------------------------------------------------------
(* The inputs and the call of apply_filters *)

ItemIds ==
  {<<97, 95, 49>>,        \* "a_1"
   <<97, 95, 50>>,        \* "a_2"
   <<97, 95, 49, 50>>,    \* "a_12"
   <<50, 98>>,            \* "2b"
   <<97>>}                \* "a"

ErrorX == [error_type |-> <<120>>]                        \* "x"
ErrorY == [error_type |-> <<121>>, error_message |-> <<109>>]  \* "y", "m"
ErrorUntyped == [error_message |-> <<120>>]

Item(id, error) == [id |-> id, error |-> error]

ItemMenu ==
  {Item(id, ErrorX) : id \in ItemIds}
  \cup {Item(<<97, 95, 49>>, error) : error \in {ErrorY, ErrorUntyped, Null, EmptyMap}}
  \cup {[id |-> <<97, 95, 50>>], [error |-> ErrorX], [id |-> <<>>, error |-> ErrorY]}

DataMenuFilters ==
  {<<>>,
   <<Item(<<97, 95, 49>>, ErrorX), Item(<<97, 95, 50>>, ErrorY),
     Item(<<49, 97, 50, 98>>, ErrorX)>>,                          \* "1a2b"
   <<Item(<<97, 95, 49, 50>>, ErrorX), Item(<<50, 98>>, ErrorX), [error |-> ErrorX]>>,
   <<Item(<<97>>, ErrorUntyped), [id |-> <<97, 95, 50>>], Item(<<97, 95, 49>>, Null)>>}

\* the characters a range text is typed from: 1 2 - + blank a
RangeAlphabet == {49, 50, 45, 43, 32, 97}

RangeMenu == {<<>>, <<49, 45, 50>>, <<50, 45, 49>>, <<49, 50>>, <<97, 45, 49>>}

SearchTerms == {<<>>, <<97>>, <<69>>, <<49>>}     \* "", "a", "E", "1"

ErrorTypes == {All, <<>>, <<120>>, Unknown}

FilterArgs(data, search_term, error_type, range_filter) ==
  [data |-> data, search_term |-> search_term, error_type |-> error_type,
   range_filter |-> range_filter]

NotFiltered == [called |-> FALSE, filtered_data |-> <<>>, errors |-> <<>>]

\* apply_filters is not called
FiltersOff ==
  /\ filter_args = FilterArgs(<<>>, <<>>, All, <<>>)
  /\ filtered = NotFiltered

\* every short range text on a few lists
InitRanges ==
  /\ \E data \in DataMenuFilters, search_term \in {<<>>, <<97>>},
        error_type \in {All, <<120>>}, range_filter \in SeqsUpTo(RangeAlphabet, MaxRange) :
       filter_args = FilterArgs(data, search_term, error_type, range_filter)
  /\ filtered = NotFiltered

\* every short list on a few range texts
InitData ==
  /\ \E data \in SeqsUpTo(ItemMenu, MaxData), search_term \in SearchTerms,
        error_type \in ErrorTypes, range_filter \in RangeMenu :
       filter_args = FilterArgs(data, search_term, error_type, range_filter)
  /\ filtered = NotFiltered

\* apply_filters(data, search_term, error_type, range_filter)
ApplyFilters ==
  /\ ~filtered.called
  /\ LET out == apply_filters(filter_args.data, filter_args.search_term,
                              filter_args.error_type, filter_args.range_filter)
     IN filtered' = [called |-> TRUE, filtered_data |-> out.filtered_data,
                     errors |-> out.errors]
  /\ UNCHANGED <<filter_args, notFilterVars>>

-----------------------------------------------------------------------------
(* What the claim on the range filter speaks about *)

\* the text of a number: digits, possibly after a sign, possibly in blanks
Numeral(t) ==
  \E b, e \in 1..Len(t) :
     /\ b <= e
     /\ \A i \in 1..Len(t) : (i < b \/ i > e) => t[i] = 32
     /\ \A i \in b..e : IsDigit(t[i]) \/ (i = b /\ i < e /\ t[i] \in {43, 45})

\* range_filter is start-end at the '-' of position i
RangeAt(range_filter, i) ==
  /\ range_filter[i] = 45
  /\ \A j \in 1..Len(range_filter) : range_filter[j] = 45 => j = i
  /\ Numeral(SubSeq(range_filter, 1, i - 1))
  /\ Numeral(SubSeq(range_filter, i + 1, Len(range_filter)))

WellFormedRange(range_filter) ==
  \E i \in 1..Len(range_filter) : RangeAt(range_filter, i)

\* one '-' between two texts
OneDash(range_filter) ==
  Cardinality({i \in 1..Len(range_filter) : range_filter[i] = 45}) = 1

\* the value of a numeral of digits and blanks
RECURSIVE ValueOf(_)
ValueOf(t) ==
  IF t = <<>> THEN 0
  ELSE IF IsDigit(t[Len(t)])
  THEN 10 * ValueOf(SubSeq(t, 1, Len(t) - 1)) + (t[Len(t)] - 48)
  ELSE ValueOf(SubSeq(t, 1, Len(t) - 1))

Descending(range_filter) ==
  \E i \in 1..Len(range_filter) :
     /\ RangeAt(range_filter, i)
     /\ ValueOf(SubSeq(range_filter, 1, i - 1))
          > ValueOf(SubSeq(range_filter, i + 1, Len(range_filter)))

WithoutRange ==
  apply_filters(filter_args.data, filter_args.search_term, filter_args.error_type,
                <<>>).filtered_data

\* range_filter is start-end with start <= end, at the '-' of position i
AscendingAt(range_filter, i) ==
  /\ RangeAt(range_filter, i)
  /\ ValueOf(SubSeq(range_filter, 1, i - 1))
       <= ValueOf(SubSeq(range_filter, i + 1, Len(range_filter)))

\* the last run of digits of an id that has a digit
LastRun(id) ==
  LET e == Greatest({i \in 1..Len(id) : IsDigit(id[i])})
      b == Least({j \in 1..e : \A k \in j..e : IsDigit(id[k])})
  IN SubSeq(id, b, e)

\* the item has an id with a digit, and the number of its last run of digits
\* is from start_num to end_num
NumberedWithin(item, start_num, end_num) ==
  /\ "id" \in DOMAIN item
  /\ \E i \in 1..Len(item["id"]) : IsDigit(item["id"][i])
  /\ start_num <= ValueOf(LastRun(item["id"]))
  /\ ValueOf(LastRun(item["id"])) <= end_num

(* C23: with a range text start-end of two numbers, start <= end,          *)
(* apply_filters shows no error and returns, in their order, exactly the   *)
(* items the other filters keep whose id has a digit and whose number (the *)
(* trailing run of digits of the id, else its last run of digits) is from  *)
(* start to end, both included; an item without id or with an id without   *)
(* digits is dropped.                                                      *)
C23_RangeKeeps ==
  filtered.called =>
    \A i \in 1..Len(filter_args.range_filter) :
       AscendingAt(filter_args.range_filter, i) =>
         LET start_num == ValueOf(SubSeq(filter_args.range_filter, 1, i - 1))
             end_num == ValueOf(SubSeq(filter_args.range_filter, i + 1,
                                       Len(filter_args.range_filter)))
             Kept(item) == NumberedWithin(item, start_num, end_num)
         IN /\ filtered.errors = <<>>
            /\ filtered.filtered_data = SelectSeq(WithoutRange, Kept)

\* the range 2-2 kept "1a2b" of the ids "a_1", "a_2", "1a2b", and "a_2"
C23_Witness ==
  /\ filtered.called
  /\ filter_args.range_filter = <<50, 45, 50>>
  /\ Len(WithoutRange) = 3
  /\ Len(filtered.filtered_data) = 2
  /\ filtered.filtered_data[2] = Item(<<49, 97, 50, 98>>, ErrorX)

(* C16: apply_filters returns for every range text; when the text is not   *)
(* two numbers around one '-' it shows one error message (the format       *)
(* message, or the numbers message when a bound is not a number), when     *)
(* start > end it shows the order message, and in these cases the list     *)
(* returned is the list apply_filters returns for the same data, search    *)
(* term and error type with no range text.                                 *)
C16_BadRangeShown ==
  (filtered.called /\ filter_args.range_filter # <<>>) =>
    LET range_filter == filter_args.range_filter
    IN /\ ~WellFormedRange(range_filter)
            => /\ filtered.errors =
                    IF OneDash(range_filter) THEN <<NumbersError>> ELSE <<FormatError>>
               /\ filtered.filtered_data = WithoutRange
       /\ Descending(range_filter)
            => /\ filtered.errors = <<OrderError>>
               /\ filtered.filtered_data = WithoutRange

\* the range 2-1 was rejected and the two items the other filters keep,
\* one of them with an id outside 1..2, came back
C16_Witness ==
  /\ filtered.called
  /\ filter_args.range_filter = <<50, 45, 49>>
  /\ filtered.errors = <<OrderError>>
  /\ Len(filtered.filtered_data) = 2
  /\ \E i \in 1..2 : filtered.filtered_data[i] = Item(<<97, 95, 49, 50>>, ErrorX)

-----------------------------------------------------------------------------
(* bfcl_eval/model_handler/api_inference/azure_openai.py:                  *)
(* AzureOpenAIHandler._parse_query_response_FC                             *)
(*                                                                         *)
(* A Python value that may be None, a text or a list is tagged with its    *)
(* type.  The one-key dict {name: arguments} is the function name :>       *)
(* arguments; arguments is the JSON text the API sent, kept as it is.      *)

MaxCalls == 2
MaxHistory == 3

NoneValue == [type |-> "None"]
Text(text) == [type |-> "str", text |-> text]
ListOf(items) == [type |-> "list", items |-> items]

\* bool(value)
IsTrue(value) ==
  CASE value.type = "None" -> FALSE
    [] value.type = "str" -> value.text # ""
    [] value.type = "list" -> value.items # <<>>

ToolCall(id, name, arguments) ==
  [id |-> id, function |-> [name |-> name, arguments |-> arguments]]

\* api_response.choices[0].message and api_response.usage
ApiResponse(content, tool_calls, prompt_tokens, completion_tokens) ==
  [message |-> [content |-> content, tool_calls |-> tool_calls],
   usage |-> [prompt_tokens |-> prompt_tokens, completion_tokens |-> completion_tokens]]

\* the body of the loop over message.tool_calls
RECURSIVE model_responses_of(_)
model_responses_of(tool_calls) ==
  IF tool_calls = <<>> THEN <<>>
  ELSE <<(Head(tool_calls).function.name :> Head(tool_calls).function.arguments)>>
       \o model_responses_of(Tail(tool_calls))

RECURSIVE tool_call_ids_of(_)
tool_call_ids_of(tool_calls) ==
  IF tool_calls = <<>> THEN <<>>
  ELSE <<Head(tool_calls).id>> \o tool_call_ids_of(Tail(tool_calls))

\* returns the text of the message whenever it has one
parse_query_response_FC_text(api_response) ==
  LET message == api_response.message
      called == IsTrue(message.tool_calls) /\ ~IsTrue(message.content)
  IN [model_responses |->
        IF called THEN ListOf(model_responses_of(message.tool_calls.items))
        ELSE message.content,
      model_responses_message_for_chat_history |-> message,
      tool_call_ids |->
        IF called THEN tool_call_ids_of(message.tool_calls.items) ELSE <<>>,
      input_token |-> api_response.usage.prompt_tokens,
      output_token |-> api_response.usage.completion_tokens]

\* _parse_query_response_FC
parse_query_response_FC(api_response) ==
  LET message == api_response.message
      called == IsTrue(message.tool_calls)
      model_responses ==
        IF called THEN model_responses_of(message.tool_calls.items) ELSE <<>>
      tool_call_ids ==
        IF called THEN tool_call_ids_of(message.tool_calls.items) ELSE <<>>
  IN [model_responses |->
        IF model_responses = <<>> THEN message.content ELSE ListOf(model_responses),
      model_responses_message_for_chat_history |-> message,
      tool_call_ids |-> tool_call_ids,
      input_token |-> api_response.usage.prompt_tokens,
      output_token |-> api_response.usage.completion_tokens]

-----------------------------------------------------------------------------
(* The responses of the API and the call of _parse_query_response_FC *)

ToolCalls ==
  {ToolCall(id, name, arguments) :
     id \in {"call_1", "call_2"}, name \in {"f", "g"},
     arguments \in {"{}", "{\"x\": 1}"}}

Contents == {NoneValue, Text(""), Text("hi")}

NoResponse == ApiResponse(NoneValue, NoneValue, 0, 0)

NotParsed == [called |-> FALSE, value |-> <<>>]

\* the messages of the chat history the handler is given
SystemMessage == [role |-> "system", content |-> Text("s")]
UserMessage(content) == [role |-> "user", content |-> Text(content)]

FirstTurnMessages == {<<UserMessage("u1")>>, <<SystemMessage, UserMessage("u1")>>}
NextTurnMessages == {<<UserMessage("u2")>>}

\* what the execution of a function call returned
ExecutionResults == {"r1", "r2"}

\* add_first_turn_message_FC: inference_data["message"].extend(...)
add_first_turn_message_FC(inference_data, first_turn_message) ==
  [inference_data EXCEPT !.message = @ \o first_turn_message]

\* _add_next_turn_user_message_FC
add_next_turn_user_message_FC(inference_data, user_message) ==
  [inference_data EXCEPT !.message = @ \o user_message]

\* _add_assistant_message_FC
add_assistant_message_FC(inference_data, model_response_data) ==
  [inference_data EXCEPT
     !.message = Append(@, model_response_data.model_responses_message_for_chat_history)]

\* zip(execution_results, tool_call_ids) as the tool messages made of it
RECURSIVE tool_messages(_, _)
tool_messages(execution_results, tool_call_ids) ==
  IF execution_results = <<>> \/ tool_call_ids = <<>> THEN <<>>
  ELSE <<[role |-> "tool", content |-> Text(Head(execution_results)),
          tool_call_id |-> Head(tool_call_ids)]>>
       \o tool_messages(Tail(execution_results), Tail(tool_call_ids))

\* gives every tool message the id of the first tool call
add_execution_results_FC_first(inference_data, execution_results, model_response_data) ==
  [inference_data EXCEPT
     !.message = @ \o tool_messages(
                        execution_results,
                        [i \in 1..Len(model_response_data.tool_call_ids) |->
                           model_response_data.tool_call_ids[1]])]

\* _add_execution_results_FC
add_execution_results_FC(inference_data, execution_results, model_response_data) ==
  [inference_data EXCEPT
     !.message = @ \o tool_messages(execution_results, model_response_data.tool_call_ids)]

\* _pre_query_processing_FC: inference_data["message"] = []
NoChat == [message |-> <<>>]

NotAdded == [op |-> "none", before |-> <<>>, execution_results |-> <<>>]

Added(op, before, execution_results) ==
  [op |-> op, before |-> before, execution_results |-> execution_results]

\* no response was received
AdapterOff ==
  /\ received = NoResponse
  /\ parsed = NotParsed
  /\ chat = NoChat
  /\ added = NotAdded

InitAdapter ==
  /\ \E content \in Contents,
        tool_calls \in {NoneValue} \cup
                       {ListOf(calls) : calls \in SeqsUpTo(ToolCalls, MaxCalls)},
        completion_tokens \in {0, 7} :
       received = ApiResponse(content, tool_calls, 11, completion_tokens)
  /\ parsed = NotParsed
  /\ chat = NoChat
  /\ added = NotAdded

\* self._parse_query_response_FC(api_response)
ParseQueryResponseFC ==
  /\ ~parsed.called
  /\ parsed' = [called |-> TRUE, value |-> parse_query_response_FC(received)]
  /\ UNCHANGED <<received, chat, added, notAdapterVars>>

\* self.add_first_turn_message_FC(inference_data, first_turn_message)
AddFirstTurnMessage ==
  /\ \E first_turn_message \in FirstTurnMessages :
       /\ Len(chat.message) + Len(first_turn_message) <= MaxHistory
       /\ chat' = add_first_turn_message_FC(chat, first_turn_message)
  /\ added' = Added("add_first_turn_message", chat.message, <<>>)
  /\ UNCHANGED <<received, parsed, notAdapterVars>>

\* self._add_next_turn_user_message_FC(inference_data, user_message)
AddNextTurnUserMessage ==
  /\ \E user_message \in NextTurnMessages :
       /\ Len(chat.message) + Len(user_message) <= MaxHistory
       /\ chat' = add_next_turn_user_message_FC(chat, user_message)
  /\ added' = Added("add_next_turn_user_message", chat.message, <<>>)
  /\ UNCHANGED <<received, parsed, notAdapterVars>>

\* self._add_assistant_message_FC(inference_data, model_response_data)
AddAssistantMessage ==
  /\ parsed.called
  /\ Len(chat.message) < MaxHistory
  /\ chat' = add_assistant_message_FC(chat, parsed.value)
  /\ added' = Added("add_assistant_message", chat.message, <<>>)
  /\ UNCHANGED <<received, parsed, notAdapterVars>>

\* self._add_execution_results_FC(inference_data, execution_results,
\* model_response_data)
AddExecutionResults ==
  /\ parsed.called
  /\ \E execution_results \in SeqsUpTo(ExecutionResults, MaxCalls) :
       /\ Len(chat.message) + Len(execution_results) <= MaxHistory
       /\ chat' = add_execution_results_FC(chat, execution_results, parsed.value)
       /\ added' = Added("add_execution_results", chat.message, execution_results)
  /\ UNCHANGED <<received, parsed, notAdapterVars>>

-----------------------------------------------------------------------------
(* What the claim on the parsed response speaks about *)

\* message.tool_calls is a list that is not empty
CarriesToolCalls ==
  /\ received.message.tool_calls.type = "list"
  /\ Len(received.message.tool_calls.items) > 0

(* C17: when the response carries tool calls, the model_responses that     *)
(* _parse_query_response_FC returns is the list with, for the i-th tool    *)
(* call, the one-key dict of its function name and arguments, and          *)
(* tool_call_ids is the list with its id at position i; when the response  *)
(* carries no tool calls (None or an empty list), model_responses is the   *)
(* content of the message and tool_call_ids is empty.                      *)
C17_CallsOrText ==
  parsed.called =>
    IF CarriesToolCalls
    THEN LET tool_calls == received.message.tool_calls.items
             model_responses == parsed.value.model_responses
             tool_call_ids == parsed.value.tool_call_ids
         IN /\ model_responses.type = "list"
            /\ Len(model_responses.items) = Len(tool_calls)
            /\ Len(tool_call_ids) = Len(tool_calls)
            /\ \A i \in 1..Len(tool_calls) :
                 /\ DOMAIN model_responses.items[i] = {tool_calls[i].function.name}
                 /\ model_responses.items[i][tool_calls[i].function.name]
                      = tool_calls[i].function.arguments
                 /\ tool_call_ids[i] = tool_calls[i].id
    ELSE /\ parsed.value.model_responses = received.message.content
         /\ parsed.value.tool_call_ids = <<>>

\* a response with a text and two calls of different functions was parsed
\* into the two calls, in their order
C17_Witness ==
  /\ parsed.called
  /\ received.message.content = Text("hi")
  /\ Len(parsed.value.tool_call_ids) = 2
  /\ parsed.value.tool_call_ids = <<"call_2", "call_1">>
  /\ DOMAIN parsed.value.model_responses.items[1] = {"g"}
  /\ DOMAIN parsed.value.model_responses.items[2] = {"f"}

\* the messages the last operation appended
Appended == SubSeq(chat.message, Len(added.before) + 1, Len(chat.message))

\* the chat history before the last operation is a prefix of the history
PrefixKept ==
  /\ Len(added.before) <= Len(chat.message)
  /\ SubSeq(chat.message, 1, Len(added.before)) = added.before

\* the i-th appended message is the tool message of the i-th execution result
\* and the i-th tool call id
ToolMessageAt(i) ==
  Appended[i] = [role |-> "tool", content |-> Text(added.execution_results[i]),
                 tool_call_id |-> parsed.value.tool_call_ids[i]]

-----------------------------------------------------------------------------
(* results_to_excel.py: main                                               *)
(*                                                                         *)
(* A path is a sequence of code points.  exporter_calls is the list of the *)
(* calls main made, each with the output path it handed over.              *)

MaxPath == 6

xlsx == <<46, 120, 108, 115, 120>>     \* ".xlsx"

\* str.endswith
endswith(s, suffix) ==
  /\ Len(s) >= Len(suffix)
  /\ SubSeq(s, Len(s) - Len(suffix) + 1, Len(s)) = suffix

\* appends the extension to every path
output_file_appended(output) == output \o xlsx

\* "Ensure output file has .xlsx extension"
output_file(output) == IF ~endswith(output, xlsx) THEN output \o xlsx ELSE output

Call(callee, output_excel) == [callee |-> callee, output_excel |-> output_excel]

\* main(): nothing is called when the input file cannot be opened
exporter_main(args) ==
  IF ~args.input_opens THEN <<>>
  ELSE <<Call("create_excel_from_results", output_file(args.output))>>
       \o (IF args.pivot
           THEN <<Call("create_pivot_analysis", output_file(args.output))>>
           ELSE <<>>)

\* the characters of the --output values: . x l s a
PathAlphabet == {46, 120, 108, 115, 97}

Args(input_opens, output, pivot) ==
  [input_opens |-> input_opens, output |-> output, pivot |-> pivot]

\* the exporter was not started
ExporterOff ==
  /\ exporter_args = Args(FALSE, <<>>, FALSE)
  /\ exporter_calls = <<>>
  /\ exporter_pc = "off"

InitExporter ==
  /\ \/ \E output \in SeqsUpTo(PathAlphabet, MaxPath), pivot \in BOOLEAN :
          exporter_args = Args(TRUE, output, pivot)
     \/ \E output \in {xlsx, <<97>>}, pivot \in BOOLEAN :
          exporter_args = Args(FALSE, output, pivot)
  /\ exporter_calls = <<>>
  /\ exporter_pc = "start"

\* python results_to_excel.py --input ... --output ... [--pivot]
ExporterMain ==
  /\ exporter_pc = "start"
  /\ exporter_calls' = exporter_main(exporter_args)
  /\ exporter_pc' = "done"
  /\ UNCHANGED <<exporter_args, notExporterVars>>

-----------------------------------------------------------------------------
(* What the claim on the output path speaks about *)

\* the last five characters of the path are . x l s x
EndsWithXlsx(path) ==
  /\ Len(path) >= 5
  /\ path[Len(path) - 4] = 46
  /\ path[Len(path) - 3] = 120
  /\ path[Len(path) - 2] = 108
  /\ path[Len(path) - 1] = 115
  /\ path[Len(path)] = 120

(* C19: every path main hands to create_excel_from_results and to          *)
(* create_pivot_analysis ends with '.xlsx'; it is the --output value       *)
(* itself when that ends with '.xlsx' and the --output value followed by   *)
(* '.xlsx' otherwise; and the rule applied to the path handed over gives   *)
(* that path again.                                                        *)
C19_XlsxSuffix ==
  \A i \in 1..Len(exporter_calls) :
     LET path == exporter_calls[i].output_excel
     IN /\ EndsWithXlsx(path)
        /\ EndsWithXlsx(exporter_args.output) => path = exporter_args.output
        /\ ~EndsWithXlsx(exporter_args.output)
             => (/\ Len(path) = Len(exporter_args.output) + 5
                 /\ SubSeq(path, 1, Len(exporter_args.output)) = exporter_args.output)
        /\ output_file(path) = path

\* --output a.xlsx with --pivot: both calls got a.xlsx
C19_Witness ==
  /\ exporter_pc = "done"
  /\ exporter_args.output = <<97>> \o xlsx
  /\ Len(exporter_calls) = 2
  /\ exporter_calls[2] = Call("create_pivot_analysis", <<97>> \o xlsx)

-----------------------------------------------------------------------------
(* utils.py: initialize_session_state, called by main of bfcl_explorer.py  *)
(* at the start of every rerun of the script                               *)
(*                                                                         *)
(* st.session_state is the mapping from the keys that are set to their     *)
(* values; session_reruns counts the reruns made.                          *)

MaxReruns == 2
MaxPage == 3

SessionKeys == {"expand_all", "expander_states", "current_page", "page_size"}

\* the values initialize_session_state gives to the keys it sets
SessionDefaults ==
  [expand_all |-> FALSE, expander_states |-> EmptyMap,
   current_page |-> 1, page_size |-> 25]

SetDefault(state, key) ==
  IF key \notin DOMAIN state THEN Put(state, key, SessionDefaults[key]) ELSE state

\* sets the current page at every call
initialize_session_state_page(state) ==
  Put(SetDefault(SetDefault(SetDefault(state, "expand_all"), "expander_states"),
                 "page_size"),
      "current_page", SessionDefaults["current_page"])

initialize_session_state(state) ==
  SetDefault(SetDefault(SetDefault(SetDefault(state, "expand_all"), "expander_states"),
                        "current_page"),
             "page_size")

\* the options of the "Items per page" selectbox
PageSizes == {10, 25, 50, 100}

ExpanderStates == {EmptyMap, ("q1" :> TRUE), ("q1" :> FALSE) @@ ("q2" :> TRUE)}

\* the session states with any of the keys set
SessionStates ==
  Optional(Optional(Optional(Optional(Optional({EmptyMap},
    "expand_all", BOOLEAN), "expander_states", ExpanderStates),
    "current_page", 1..MaxPage), "page_size", PageSizes),
    "json_search", {"x"})

\* the number of items of the largest filtered data
MaxFiltered == 26

\* the id of the i-th item of the filtered data
ItemId(i) == ToString(i)

ItemIds_of(positions) == {ItemId(i) : i \in positions}

\* the sizes of the filtered data: none, two pages of 10, two pages of 25
FilteredCounts == {0, 11, MaxFiltered}

\* the button pressed in a rerun, if any
Buttons == {"none", "first", "prev", "next", "last", "expand_all", "collapse_all"}

total_pages_of(total_filtered_items, page_size) ==
  IF (total_filtered_items + page_size - 1) \div page_size > 1
  THEN (total_filtered_items + page_size - 1) \div page_size ELSE 1

\* keeps a current page beyond the last page
render_pagination_controls_kept(state, total_filtered_items, page_size, pressed) ==
  LET sized == Put(state, "page_size", page_size)
      total_pages == total_pages_of(total_filtered_items, page_size)
      current_page == sized["current_page"]
  IN Put(sized, "current_page",
         CASE pressed = "first" -> 1
           [] pressed = "prev" -> IF current_page - 1 > 1 THEN current_page - 1 ELSE 1
           [] pressed = "next" ->
                IF current_page + 1 < total_pages THEN current_page + 1 ELSE total_pages
           [] pressed = "last" -> total_pages
           [] OTHER -> current_page)

\* render_pagination_controls: the session state it leaves; page_size is the
\* value of the selectbox, pressed the button that returned True
render_pagination_controls(state, total_filtered_items, page_size, pressed) ==
  LET sized == Put(state, "page_size", page_size)
      total_pages == total_pages_of(total_filtered_items, page_size)
      reset == IF sized["current_page"] > total_pages
               THEN Put(sized, "current_page", 1) ELSE sized
      current_page == reset["current_page"]
  IN Put(reset, "current_page",
         CASE pressed = "first" -> 1
           [] pressed = "prev" -> IF current_page - 1 > 1 THEN current_page - 1 ELSE 1
           [] pressed = "next" ->
                IF current_page + 1 < total_pages THEN current_page + 1 ELSE total_pages
           [] pressed = "last" -> total_pages
           [] OTHER -> current_page)

\* st.session_state.expander_states[id] = value for every id
SetExpanderStates(state, ids, value) ==
  Put(state, "expander_states",
      [id \in DOMAIN state["expander_states"] \cup ids |->
         IF id \in ids THEN value ELSE state["expander_states"][id]])

\* render_expand_collapse_controls on the whole filtered data
render_expand_collapse_controls(state, total_filtered_items, pressed) ==
  CASE pressed = "expand_all" ->
         SetExpanderStates(Put(state, "expand_all", TRUE),
                           ItemIds_of(1..total_filtered_items), TRUE)
    [] pressed = "collapse_all" ->
         SetExpanderStates(Put(state, "expand_all", FALSE),
                           ItemIds_of(1..total_filtered_items), FALSE)
    [] OTHER -> state

\* filtered_all_data[start_idx:end_idx], as the positions of its items
page_slice(current_page, page_size, total_filtered_items) ==
  LET start_idx == (current_page - 1) * page_size
      end_idx == IF start_idx + page_size < total_filtered_items
                 THEN start_idx + page_size ELSE total_filtered_items
  IN (start_idx + 1)..end_idx

\* render_data_items: the body of "with st.expander(...)" runs for every item
\* of the page, expanded or not
render_data_items(state, page) == SetExpanderStates(state, ItemIds_of(page), TRUE)

\* render_category_details on data that is not empty
render_category_details(state, total_filtered_items, page_size, pressed) ==
  LET paged == render_pagination_controls(state, total_filtered_items, page_size, pressed)
      page == page_slice(paged["current_page"], page_size, total_filtered_items)
      controlled == render_expand_collapse_controls(paged, total_filtered_items, pressed)
  IN [state |-> render_data_items(controlled, page), page |-> page]

NotRendered ==
  [called |-> FALSE, total_filtered_items |-> 0, pressed |-> "none", page |-> {}]

\* no session was opened
SessionOff ==
  /\ session_state = EmptyMap
  /\ session_reruns = 0
  /\ rendered = NotRendered

InitSession ==
  /\ session_state \in SessionStates
  /\ session_reruns = 0
  /\ rendered = NotRendered

\* main() of the explorer: initialize_session_state()
InitializeSessionState ==
  /\ session_reruns < MaxReruns
  /\ session_state' = initialize_session_state(session_state)
  /\ session_reruns' = session_reruns + 1
  /\ UNCHANGED rendered
  /\ UNCHANGED notSessionVars

\* a rerun of main() that shows the details of a category
RenderCategoryDetails ==
  /\ session_reruns < MaxReruns
  /\ \E total_filtered_items \in FilteredCounts, page_size \in PageSizes,
        pressed \in Buttons :
       LET out == render_category_details(initialize_session_state(session_state),
                                          total_filtered_items, page_size, pressed)
       IN /\ session_state' = out.state
          /\ rendered' = [called |-> TRUE, total_filtered_items |-> total_filtered_items,
                          pressed |-> pressed, page |-> out.page]
  /\ session_reruns' = session_reruns + 1
  /\ UNCHANGED notSessionVars

-----------------------------------------------------------------------------
(* C20: a call of initialize_session_state leaves every key that is in the *)
(* session state with its value, and sets exactly the keys among           *)
(* expand_all, expander_states, current_page and page_size that are not in *)
(* it, to False, {}, 1 and 25; so a rerun never resets the current page,   *)
(* the page size or the expanded panels.                                   *)
C20_InitOnFirstUse ==
  [][InitializeSessionState =>
       /\ DOMAIN session_state' = (DOMAIN session_state) \cup SessionKeys
       /\ \A key \in DOMAIN session_state : session_state'[key] = session_state[key]
       /\ "expand_all" \notin DOMAIN session_state => session_state'["expand_all"] = FALSE
       /\ "expander_states" \notin DOMAIN session_state
            => DOMAIN session_state'["expander_states"] = {}
       /\ "current_page" \notin DOMAIN session_state => session_state'["current_page"] = 1
       /\ "page_size" \notin DOMAIN session_state => session_state'["page_size"] = 25]_vars

\* after two reruns the session is on page 3 with 50 items per page and an
\* expanded panel, the expand_all flag having been set by the first rerun
C20_Witness ==
  /\ session_reruns = 2
  /\ session_state["current_page"] = 3
  /\ session_state["page_size"] = 50
  /\ session_state["expander_states"] = ("q1" :> TRUE)
  /\ session_state["expand_all"] = FALSE
  /\ "json_search" \notin DOMAIN session_state

\* C24: after a rerun in which Collapse All was pressed, every item of the
\* filtered data has the expander state False (rendering the page of items
\* changes no expander state).
C24_CollapsedStay ==
  (rendered.called /\ rendered.pressed = "collapse_all") =>
    \A i \in 1..rendered.total_filtered_items :
       /\ ItemId(i) \in DOMAIN session_state["expander_states"]
       /\ session_state["expander_states"][ItemId(i)] = FALSE

\* C25: after a rerun that rendered the pagination controls, whatever the
\* session state before, the page size selected, the button pressed and the
\* number of filtered items, 1 <= current_page <= total_pages with
\* total_pages = max(1, ceil(total_filtered_items / page_size)), and the page
\* slice is the items from (current_page - 1) * page_size + 1 on, at most
\* page_size of them, not empty when the filtered data is not empty.
C25_PageWithinPages ==
  rendered.called =>
    LET page_size == session_state["page_size"]
        current_page == session_state["current_page"]
        total == rendered.total_filtered_items
    IN /\ 1 <= current_page
       /\ current_page * page_size < total + page_size \/ current_page = 1
       /\ current_page <= total_pages_of(total, page_size)
       /\ total > 0 => rendered.page # {}
       /\ rendered.page =
            {i \in 1..total : (current_page - 1) * page_size < i
                                /\ i <= current_page * page_size}

\* Last was pressed on 11 items shown 10 per page: page 2 shows the item 11
C25_Witness ==
  /\ rendered.called
  /\ rendered.pressed = "last"
  /\ rendered.total_filtered_items = 11
  /\ session_state["page_size"] = 10
  /\ session_state["current_page"] = 2
  /\ rendered.page = {11}

-----------------------------------------------------------------------------
(* Specifications *)

\* the analyzer was not started
AnalyzerOff ==
  /\ data_dir = [d \in DatasetNames |-> Absent]
  /\ score_dir = [k \in ModelDirs \X DatasetNames |-> Absent]
  /\ model_name = <<>>
  /\ Idle

\* the analyzer, then the exporter on its output
Init ==
  InitAnalyzer /\ LoaderOff /\ FiltersOff /\ AdapterOff /\ ExporterOff /\ SessionOff

Next == Analyze \/ SaveResults \/ CreateExcel

Spec == Init /\ [][Next]_vars

\* the calls on a BFCLDataLoader
InitLoader ==
  /\ InitRecords \/ InitAnswers \/ InitMultiTurn
  /\ AnalyzerOff /\ FiltersOff /\ AdapterOff /\ ExporterOff /\ SessionOff

NextLoader == LoadQuestions \/ LoadGroundTruth \/ LoadDataset \/ ValidateDataset

SpecLoader == InitLoader /\ [][NextLoader]_vars

\* the calls of apply_filters
InitFilters ==
  /\ InitRanges \/ InitData
  /\ AnalyzerOff /\ LoaderOff /\ AdapterOff /\ ExporterOff /\ SessionOff

NextFilters == ApplyFilters

SpecFilters == InitFilters /\ [][NextFilters]_vars

\* the parsing of a response of the completion API
InitResponse ==
  InitAdapter /\ AnalyzerOff /\ LoaderOff /\ FiltersOff /\ ExporterOff /\ SessionOff

NextAdapter ==
  \/ ParseQueryResponseFC
  \/ AddFirstTurnMessage
  \/ AddNextTurnUserMessage
  \/ AddAssistantMessage
  \/ AddExecutionResults

SpecAdapter == InitResponse /\ [][NextAdapter]_vars

\* a run of results_to_excel.py
InitCli ==
  InitExporter /\ AnalyzerOff /\ LoaderOff /\ FiltersOff /\ AdapterOff /\ SessionOff

NextExporter == ExporterMain

SpecExporter == InitCli /\ [][NextExporter]_vars

\* the reruns of the explorer in one session
InitReruns ==
  InitSession /\ AnalyzerOff /\ LoaderOff /\ FiltersOff /\ AdapterOff /\ ExporterOff

NextSession == InitializeSessionState \/ RenderCategoryDetails

SpecSession == InitReruns /\ [][NextSession]_vars

====
